---------------------------- MODULE Spec2Model ----------------------------
(***************************************************************************)
(* The gamma-exposure engine of backend/engines/gex_engine.py as a state   *)
(* machine: one invocation of calculate_gex walks its options chain one    *)
(* contract per step and then materialises the GexResult.                  *)
(* The helpers of the engine are also called on their own, two            *)
(* invocations are run side by side, and the TTLCache of backend/cache.py  *)
(* is modelled operation by operation.  FMPClient._request of              *)
(* backend/fmp_client.py and the DataRefreshScheduler of                   *)
(* backend/scheduler.py are modelled one step per await.                   *)
(*                                                                         *)
(* Numbers.  The engine computes on IEEE doubles; the model computes on    *)
(* integers in fixed units:                                                *)
(*   price, bid, ask, lastPrice, intrinsic   1e-6 USD                      *)
(*   sigma (implied volatility)              1e-7                          *)
(*   gamma                                   1e-3                          *)
(*   call_gex, put_gex, net_gex, total_gex   1e-3 USD                      *)
(*   strike, current_price                   1 USD                         *)
(*   dates                                   day ordinals                  *)
(*   T (time to expiry)                      1/365 year, i.e. days         *)
(* The risk-free rate is settings.risk_free_rate = 0.045 (config.py:41).   *)
(* A volatility is representable when it is IV_BISECT_LOW plus a multiple  *)
(* of SigmaUlp: the grid plays the part of the double's finite precision.  *)
(* Black-Scholes prices and gammas are the values of the source formulas   *)
(* (lines 98-144) at spot 10, strikes 8 to 11, expiries of 30 and 60       *)
(* days (the gamma at strike 10 also one day from expiry), tabulated at    *)
(* 33 knots KnotStep apart and rounded to the unit;                        *)
(* between two knots the value is interpolated linearly, so that a price   *)
(* is continuous and non-decreasing in the volatility and moves by less    *)
(* than IV_BISECT_TOLERANCE from one representable volatility to the       *)
(* next, as the double-precision price does.  A gamma below the unit       *)
(* reads 0 as an underflowing double does.                                 *)
(***************************************************************************)
EXTENDS Integers, Sequences, FiniteSets, TLC

VARIABLES
  options_chain,   \* argument of calculate_gex: the list of contract dicts
  current_price,   \* argument of calculate_gex: the spot price
  today,           \* date.today(), the clock read by _time_to_expiry_years
  pc,              \* position in calculate_gex / in the helper harness
  idx,             \* 1-based index of the next contract of the for loop
  strike_gex,      \* the dict strike -> {call, put}, in insertion order
  log,             \* per processed contract, what the loop body did with it
  exc,             \* the exception that escaped calculate_gex, "" if none
  result,          \* the returned GexResult, NoResult before the return
  strike_rows,     \* argument of the post-processing helpers
  ret,             \* value returned by a helper called on its own
  args,            \* arguments of a helper called on its own
  bisect,          \* locals of the loop of _implied_volatility_bisection
  settings,        \* backend.config.settings, read by calculate_gex
  inv,             \* the frames of the concurrent invocations of calculate_gex
  cells,           \* the strike_gex dicts of the concurrent invocations
  store,           \* TTLCache._store: key -> (value, expiry)
  clock,           \* time.time(), the clock read by TTLCache
  hist,            \* per key, the most recent set and what followed it
  op,              \* the last TTLCache operation and what it returned
  req,             \* the frame of one call of FMPClient._request
  sched,           \* DataRefreshScheduler: _running and _tasks
  tasks,           \* the asyncio tasks created by start(), by task id
  calls,           \* the stop() calls suspended at asyncio.gather
  ev               \* the last step of the scheduler and what it found

engine_vars == << options_chain, current_price, today, pc, idx, strike_gex, log,
                  exc, result, strike_rows, ret >>
helper_vars == << args, bisect >>
conc_vars == << settings, inv, cells >>
cache_vars == << store, clock, hist, op >>

service_vars == << req, sched, tasks, calls, ev >>
vars == << engine_vars, helper_vars, conc_vars, cache_vars, service_vars >>

---------------------------------------------------------------------------
(* Module-level constants, gex_engine.py lines 36-45.                      *)

PriceUnit == 10 ^ 6
IV_BISECT_LOW == 100000
IV_BISECT_HIGH == 50000000
IV_BISECT_TOLERANCE == 100
IV_BISECT_MAX_ITER == 100
CONTRACT_MULTIPLIER == 100

(* Spacing of the representable volatilities, 3.2e-6: the bracket holds an *)
(* odd number of steps, 1559375.                                           *)
SigmaUlp == 2 ^ 5

(* Spacing of the knots of the tables: 32 segments over the bracket.       *)
KnotStep == (IV_BISECT_HIGH - IV_BISECT_LOW) \div (2 ^ 5)

(* Optional[float]: None is the empty sequence, a value x is <<x>>.        *)
None == << >>
Some(x) == << x >>

Abs(x) == IF x < 0 THEN -x ELSE x
Max(a, b) == IF a >= b THEN a ELSE b

---------------------------------------------------------------------------
(* Black-Scholes helpers.                                                  *)

(* _bs_d1 divides by K and takes the logarithm of S / K: a zero strike is  *)
(* a ZeroDivisionError, a non-positive ratio a ValueError (math domain).   *)
_bs_d1_exc(S, K) ==
  IF K = 0 THEN "ZeroDivisionError"
  ELSE IF S * K <= 0 THEN "ValueError"
  ELSE ""

(* The knot at or below sigma.                                             *)
GridIndex(sigma) == (sigma - IV_BISECT_LOW) \div KnotStep

(* a * b \div u for 0 <= b < u, in steps that stay within 32 bits.         *)
MulDiv(a, b, u) ==
  LET m == Abs(a)
      t1 == m * (b \div 1024)
      q == (t1 \div u) * 1024 + ((t1 % u) * 1024 + m * (b % 1024)) \div u
  IN  IF a < 0 THEN -q ELSE q

(* The value at sigma of the table tab of 33 knots.                        *)
Interpolate(tab, sigma) ==
  LET k == GridIndex(sigma)
      f == (sigma - IV_BISECT_LOW) % KnotStep
  IN  IF f = 0 THEN tab[k + 1]
      ELSE tab[k + 1] + MulDiv(tab[k + 2] - tab[k + 1], f, KnotStep)

(* exp(-r * T), in 1e-6.                                                   *)
Discount(T) ==
  CASE T = 30 -> 996308
    [] T = 60 -> 992630

PriceTable(K, T, option_type) ==
  CASE K = 8 /\ T = 30 /\ option_type = "call" ->
    <<
        2029534, 2029534, 2031411, 2054370, 2111615, 2196621, 2300611, 2417282, 2542514,
        2673609, 2808757, 2946698, 3086533, 3227594, 3369375, 3511479, 3653588, 3795442,
        3936826, 4077555, 4217469, 4356432, 4494320, 4631024, 4766447, 4900498, 5033099,
        5164175, 5293658, 5421488, 5547607, 5671964, 5794511 >>
    [] K = 8 /\ T = 60 /\ option_type = "call" ->
    <<
        2058960, 2059007, 2076981, 2157496, 2288928, 2450084, 2628350, 2816710, 3011076,
        3208909, 3408532, 3608778, 3808792, 4007922, 4205652, 4401562, 4595300, 4786569,
        4975109, 5160697, 5343133, 5522243, 5697873, 5869887, 6038165, 6202601, 6363106,
        6519603, 6672026, 6820324, 6964455, 7104390, 7240107 >>
    [] K = 9 /\ T = 30 /\ option_type = "call" ->
    <<
        1033226, 1034912, 1084067, 1189999, 1322664, 1468078, 1620190, 1776055, 1934068,
        2093269, 2253039, 2412947, 2572679, 2731994, 2890699, 3048631, 3205653, 3361645,
        3516499, 3670116, 3822409, 3973294, 4122694, 4270539, 4416761, 4561297, 4704088,
        4845080, 4984219, 5121459, 5256752, 5390058, 5521336 >>
    [] K = 9 /\ T = 60 /\ option_type = "call" ->
    <<
        1066330, 1078651, 1198420, 1383497, 1592019, 1810404, 2033289, 2258098, 2483390,
        2708255, 2932058, 3154322, 3374663, 3592761, 3808339, 4021154, 4230986, 4437635,
        4640921, 4840679, 5036758, 5229021, 5417344, 5601614, 5781734, 5957614, 6129179,
        6296363, 6459113, 6617385, 6771147, 6920376, 7065059 >>
    [] K = 10 /\ T = 30 /\ option_type = "call" ->
    <<
        38248, 208451, 386083, 563712, 741117, 918181, 1094807, 1270904, 1446385,
        1621162, 1795151, 1968269, 2140433, 2311563, 2481581, 2650408, 2817969, 2984192,
        3149003, 3312334, 3474117, 3634286, 3792779, 3949533, 4104492, 4257599, 4408801,
        4558047, 4705288, 4850479, 4993577, 5134541, 5273335 >>
    [] K = 10 /\ T = 60 /\ option_type = "call" ->
    <<
        74242, 305825, 556022, 806211, 1055768, 1304368, 1551741, 1797634, 2041808,
        2284028, 2524069, 2761711, 2996743, 3228960, 3458168, 3684177, 3906811, 4125901,
        4341287, 4552821, 4760364, 4963788, 5162975, 5357819, 5548224, 5734106, 5915390,
        6092014, 6263925, 6431083, 6593456, 6751024, 6903776 >>
    [] K = 11 /\ T = 30 /\ option_type = "call" ->
    <<
        0, 5147, 81545, 215670, 372965, 540701, 713729, 889603, 1066999, 1245125,
        1423460, 1601641, 1779395, 1956506, 2132799, 2308123, 2482348, 2655355, 2827039,
        2997302, 3166054, 3333210, 3498690, 3662420, 3824330, 3984352, 4142426, 4298492,
        4452494, 4604380, 4754103, 4901616, 5046878 >>
    [] K = 11 /\ T = 60 /\ option_type = "call" ->
    <<
        0, 31541, 203439, 429023, 671360, 920215, 1171677, 1423857, 1675668, 1926396,
        2175518, 2422619, 2667356, 2909429, 3148571, 3384540, 3617116, 3846096, 4071293,
        4292534, 4509661, 4722529, 4931007, 5134976, 5334330, 5528974, 5718827, 5903820,
        6083894, 6259004, 6429116, 6594205, 6754258 >>
    [] K = 8 /\ T = 30 /\ option_type = "put" ->
    <<
        0, 0, 1876, 24836, 82081, 167086, 271077, 387748, 512980, 644075, 779222,
        917164, 1056999, 1198060, 1339841, 1481944, 1624053, 1765908, 1907292, 2048020,
        2187935, 2326898, 2464786, 2601490, 2736912, 2870964, 3003565, 3134640, 3264124,
        3391953, 3518073, 3642429, 3764976 >>
    [] K = 8 /\ T = 60 /\ option_type = "put" ->
    <<
        0, 47, 18022, 98536, 229969, 391124, 569390, 757751, 952117, 1149949, 1349572,
        1549818, 1749832, 1948962, 2146692, 2342602, 2536341, 2727609, 2916150, 3101737,
        3284173, 3463283, 3638914, 3810927, 3979205, 4143641, 4304147, 4460643, 4613067,
        4761364, 4905496, 5045430, 5181147 >>
    [] K = 9 /\ T = 30 /\ option_type = "put" ->
    <<
        0, 1686, 50840, 156773, 289438, 434851, 586963, 742828, 900842, 1060043,
        1219812, 1379720, 1539453, 1698768, 1857473, 2015405, 2172427, 2328419, 2483273,
        2636890, 2789183, 2940068, 3089468, 3237313, 3383535, 3528071, 3670862, 3811854,
        3950993, 4088232, 4223526, 4356832, 4488110 >>
    [] K = 9 /\ T = 60 /\ option_type = "put" ->
    <<
        0, 12322, 132090, 317168, 525689, 744074, 966959, 1191768, 1417060, 1641925,
        1865729, 2087992, 2308333, 2526431, 2742010, 2954825, 3164656, 3371305, 3574592,
        3774349, 3970428, 4162691, 4351014, 4535285, 4715404, 4891284, 5062849, 5230033,
        5392783, 5551055, 5704817, 5854046, 5998729 >>
    [] K = 10 /\ T = 30 /\ option_type = "put" ->
    <<
        1330, 171533, 349165, 526794, 704199, 881263, 1057889, 1233986, 1409467,
        1584244, 1758233, 1931351, 2103515, 2274645, 2444663, 2613490, 2781051, 2947274,
        3112085, 3275416, 3437199, 3597368, 3755861, 3912615, 4067574, 4220681, 4371883,
        4521129, 4668370, 4813561, 4956659, 5097623, 5236417 >>
    [] K = 10 /\ T = 60 /\ option_type = "put" ->
    <<
        542, 232125, 482322, 732511, 982069, 1230669, 1478041, 1723934, 1968108,
        2210328, 2450369, 2688011, 2923043, 3155261, 3384468, 3610478, 3833112, 4052201,
        4267588, 4479122, 4686665, 4890088, 5089275, 5284119, 5474525, 5660406, 5841690,
        6018314, 6190226, 6357383, 6519756, 6677324, 6830077 >>
    [] K = 11 /\ T = 30 /\ option_type = "put" ->
    <<
        959390, 964537, 1040935, 1175060, 1332356, 1500092, 1673119, 1848993, 2026389,
        2204515, 2382851, 2561032, 2738785, 2915897, 3092189, 3267513, 3441738, 3614745,
        3786429, 3956693, 4125444, 4292600, 4458080, 4621810, 4783720, 4943743, 5101816,
        5257882, 5411884, 5563771, 5713493, 5861007, 6006268 >>
    [] K = 11 /\ T = 60 /\ option_type = "put" ->
    <<
        918930, 950471, 1122370, 1347953, 1590290, 1839145, 2090607, 2342787, 2594599,
        2845327, 3094448, 3341550, 3586287, 3828359, 4067501, 4303470, 4536046, 4765026,
        4990223, 5211464, 5428591, 5641460, 5849938, 6053907, 6253260, 6447904, 6637757,
        6822750, 7002825, 7177935, 7348046, 7513135, 7673189 >>


GammaTable(K, T) ==
  CASE K = 8 /\ T = 30 ->
    <<
        0, 0, 19, 66, 90, 95, 92, 86, 80, 74, 68, 63, 58, 54, 51, 47, 44, 42, 39, 37,
        35, 33, 31, 30, 28, 27, 25, 24, 23, 22, 21, 20, 19 >>
    [] K = 8 /\ T = 60 ->
    <<
        0, 1, 57, 90, 92, 85, 76, 68, 61, 55, 50, 45, 41, 38, 35, 32, 30, 28, 26, 24,
        23, 21, 20, 18, 17, 16, 15, 14, 13, 13, 12, 11, 10 >>
    [] K = 9 /\ T = 30 ->
    <<
        0, 57, 203, 200, 173, 148, 127, 111, 98, 88, 79, 72, 66, 61, 56, 52, 49, 46, 43,
        40, 38, 36, 34, 32, 30, 29, 27, 26, 25, 23, 22, 21, 20 >>
    [] K = 9 /\ T = 60 ->
    <<
        0, 138, 199, 164, 132, 109, 92, 80, 70, 62, 55, 50, 45, 42, 38, 35, 32, 30, 28,
        26, 24, 23, 21, 20, 19, 17, 16, 15, 14, 13, 13, 12, 11 >>
    [] K = 10 /\ T = 30 ->
    <<
        6043, 834, 431, 290, 218, 175, 146, 125, 109, 96, 86, 78, 71, 65, 60, 56, 52,
        49, 45, 43, 40, 38, 36, 34, 32, 30, 29, 27, 26, 25, 24, 23, 21 >>
    [] K = 10 /\ T = 60 ->
    <<
        1856, 587, 303, 204, 153, 123, 102, 87, 75, 67, 59, 53, 48, 44, 40, 37, 34, 32,
        30, 28, 26, 24, 22, 21, 20, 18, 17, 16, 15, 14, 13, 12, 12 >>
    [] K = 11 /\ T = 30 ->
    <<
        0, 137, 276, 243, 202, 169, 144, 125, 110, 98, 89, 80, 74, 68, 63, 58, 54, 51,
        47, 44, 42, 40, 37, 35, 33, 32, 30, 29, 27, 26, 25, 24, 22 >>
    [] K = 11 /\ T = 60 ->
    <<
        0, 264, 254, 193, 152, 124, 104, 89, 78, 69, 62, 56, 50, 46, 42, 39, 36, 33, 31,
        29, 27, 25, 23, 22, 20, 19, 18, 17, 16, 15, 14, 13, 12 >>
    [] K = 10 /\ T = 1 ->
    <<
        74128, 4592, 2368, 1595, 1202, 965, 806, 692, 606, 539, 485, 441, 405, 374, 347,
        324, 304, 286, 270, 256, 243, 231, 221, 211, 202, 194, 186, 179, 173, 167, 161,
        156, 151 >>


(* _bs_price at spot 10: the call or put price at the volatility sigma.    *)
_bs_price(S, K, sigma, T, option_type) ==
  Interpolate(PriceTable(K, T, IF option_type = "call" THEN "call" ELSE "put"), sigma)

(* A variant of the guard that never holds.                                *)
GuardNever(sigma, T) == FALSE

(* sigma * sqrt(T) < MIN_SIGMA_SQRT_T = 1e-8, squared and cleared of       *)
(* fractions: (sigma * 1e-7)^2 * T / 365 < 1e-16.  From sigma = 2 units    *)
(* and T = 1 day on the product is at least 4 > 3.65.                      *)
SigmaSqrtTBelowGuard(sigma, T) ==
  sigma < 2 /\ T < 365 /\ sigma * sigma * T * 100 < 365

(* The exception _bs_gamma lets through: _bs_d1 is not reached when the    *)
(* guard returns 0.0.                                                      *)
_bs_gamma_exc(S, K, sigma, T) ==
  IF SigmaSqrtTBelowGuard(sigma, T) THEN "" ELSE _bs_d1_exc(S, K)

(* Below the bracket the model feeds the volatilities 1e-7 and 2e-7 with   *)
(* at most 3 days to run: there d1 exceeds 1e4 and the density             *)
(* norm.pdf(d1) is 0.0.                                                    *)
_bs_gamma(S, K, sigma, T) ==
  IF SigmaSqrtTBelowGuard(sigma, T) THEN 0
  ELSE IF sigma < IV_BISECT_LOW THEN 0
  ELSE Interpolate(GammaTable(K, T), sigma)

---------------------------------------------------------------------------
(* IV bisection.                                                           *)

(* (low + high) / 2.0 on doubles: exact when representable, else rounded   *)
(* to the neighbour with the even mantissa.  IV_BISECT_LOW = 0.01 =        *)
(* 0x1.47ae147ae147bp-7 has an odd mantissa and IV_BISECT_HIGH = 5.0 =     *)
(* 0x1.4p+2 an even one: the n-th representable volatility above           *)
(* IV_BISECT_LOW has an even mantissa when n is odd.                       *)
Mid(low, high) ==
  LET s == (low - IV_BISECT_LOW) \div SigmaUlp + (high - IV_BISECT_LOW) \div SigmaUlp
      down == s \div 2
  IN  IV_BISECT_LOW
        + SigmaUlp * (IF s % 2 = 0 \/ down % 2 = 1 THEN down ELSE down + 1)

(* A variant with the inclusive test abs(error) <= IV_BISECT_TOLERANCE.     *)
BisectStepInclusiveTolerance(st, market_price, S, K, T, option_type) ==
  IF st.done THEN st
  ELSE LET mid == Mid(st.low, st.high)
           price_mid == _bs_price(S, K, mid, T, option_type)
           error == price_mid - market_price
       IN  IF Abs(error) <= IV_BISECT_TOLERANCE
           THEN [st EXCEPT !.done = TRUE, !.val = Some(mid),
                           !.iterations = @ + 1]
           ELSE IF error < 0
                THEN [st EXCEPT !.low = mid, !.iterations = @ + 1]
                ELSE [st EXCEPT !.high = mid, !.iterations = @ + 1]

(* A variant that does not count its iterations.                           *)
BisectStepUncounted(st, market_price, S, K, T, option_type) ==
  IF st.done THEN st
  ELSE LET mid == Mid(st.low, st.high)
           price_mid == _bs_price(S, K, mid, T, option_type)
           error == price_mid - market_price
       IN  IF Abs(error) < IV_BISECT_TOLERANCE
           THEN [st EXCEPT !.done = TRUE, !.val = Some(mid)]
           ELSE IF error < 0
                THEN [st EXCEPT !.low = mid]
                ELSE [st EXCEPT !.high = mid]

(* A variant that narrows the interval from the wrong side.                *)
BisectStepWrongSide(st, market_price, S, K, T, option_type) ==
  IF st.done THEN st
  ELSE LET mid == Mid(st.low, st.high)
           price_mid == _bs_price(S, K, mid, T, option_type)
           error == price_mid - market_price
       IN  IF Abs(error) < IV_BISECT_TOLERANCE
           THEN [st EXCEPT !.done = TRUE, !.val = Some(mid),
                           !.iterations = @ + 1]
           ELSE IF error < 0
                THEN [st EXCEPT !.high = mid, !.iterations = @ + 1]
                ELSE [st EXCEPT !.low = mid, !.iterations = @ + 1]

(* One iteration of the for loop of lines 210-225 on the loop state        *)
(* [low, high, done, val, iterations]; done is set by the return of line   *)
(* 219 and the iterations after it do not happen.                          *)
BisectStep(st, market_price, S, K, T, option_type) ==
  IF st.done THEN st
  ELSE LET mid == Mid(st.low, st.high)
           price_mid == _bs_price(S, K, mid, T, option_type)
           error == price_mid - market_price
       IN  IF Abs(error) < IV_BISECT_TOLERANCE
           THEN [st EXCEPT !.done = TRUE, !.val = Some(mid),
                           !.iterations = @ + 1]
           ELSE IF error < 0
                THEN [st EXCEPT !.low = mid, !.iterations = @ + 1]
                ELSE [st EXCEPT !.high = mid, !.iterations = @ + 1]

(* n iterations from st, split in halves to keep the evaluation shallow;   *)
(* the state after the first half is bound once, not re-evaluated at each  *)
(* use.                                                                    *)
RECURSIVE BisectIterate(_, _, _, _, _, _, _)
BisectIterate(st, n, market_price, S, K, T, option_type) ==
  IF n = 0 THEN st
  ELSE IF n = 1 THEN BisectStep(st, market_price, S, K, T, option_type)
  ELSE CHOOSE r \in
         { IF half.done THEN half
           ELSE BisectIterate(half, n - (n \div 2), market_price, S, K, T,
                              option_type)
           : half \in { BisectIterate(st, n \div 2, market_price, S, K, T,
                                      option_type) } } : TRUE

(* for iteration in range(IV_BISECT_MAX_ITER): ...; return None            *)
BisectLoop(low, high, market_price, S, K, T, option_type) ==
  BisectIterate([low |-> low, high |-> high, done |-> FALSE, val |-> None,
                 iterations |-> 0],
                IV_BISECT_MAX_ITER, market_price, S, K, T, option_type)

(* max(S - K * discount, 0.0) for a call, max(K * discount - S, 0.0) for a  *)
(* put, lines 183-187.                                                     *)
Intrinsic(S, K, T, option_type) ==
  IF option_type = "call"
  THEN Max(S * PriceUnit - K * Discount(T), 0)
  ELSE Max(K * Discount(T) - S * PriceUnit, 0)

(* A variant without the test against the price at IV_BISECT_HIGH.         *)
PreconditionWithoutUpperCheck(market_price, S, K, T, option_type) ==
  IF market_price <= 0 THEN "none"
  ELSE IF market_price < Intrinsic(S, K, T, option_type) - IV_BISECT_TOLERANCE
  THEN "none"
  ELSE IF _bs_d1_exc(S, K) # "" THEN _bs_d1_exc(S, K)
  ELSE IF market_price
            < _bs_price(S, K, IV_BISECT_LOW, T, option_type) - IV_BISECT_TOLERANCE
  THEN "none"
  ELSE "search"

(* Lines 178-208, what precedes the loop: "none" for a return of None,     *)
(* the name of the exception _bs_price lets through, or "search".          *)
SolverPrecondition(market_price, S, K, T, option_type) ==
  IF market_price <= 0 THEN "none"
  ELSE IF market_price < Intrinsic(S, K, T, option_type) - IV_BISECT_TOLERANCE
  THEN "none"
  ELSE IF _bs_d1_exc(S, K) # "" THEN _bs_d1_exc(S, K)
  ELSE
    LET price_low == _bs_price(S, K, IV_BISECT_LOW, T, option_type)
        price_high == _bs_price(S, K, IV_BISECT_HIGH, T, option_type)
    IN  IF market_price < price_low - IV_BISECT_TOLERANCE THEN "none"
        ELSE IF market_price > price_high + IV_BISECT_TOLERANCE THEN "none"
        ELSE "search"

(* Returns [exc, val]: val is the Optional[float] returned, exc the        *)
(* exception _bs_price let through ("" if none).                           *)
_implied_volatility_bisection(market_price, S, K, T, option_type) ==
  LET pre == SolverPrecondition(market_price, S, K, T, option_type) IN
  IF pre = "none" THEN [exc |-> "", val |-> None]
  ELSE IF pre # "search" THEN [exc |-> pre, val |-> None]
  ELSE [exc |-> "",
        val |-> BisectLoop(IV_BISECT_LOW, IV_BISECT_HIGH,
                           market_price, S, K, T, option_type).val]

---------------------------------------------------------------------------
(* Raw contract dicts.  A field value is [k, v]: k = "none" for a missing  *)
(* key (or None), "str" for a non-numeric string such as "abc", "num" for  *)
(* an int or float v, "date" for an ISO date string of day ordinal v.      *)

Absent == [k |-> "none", v |-> 0]
Str == [k |-> "str", v |-> 0]
Num(x) == [k |-> "num", v |-> x]
IsoDate(d) == [k |-> "date", v |-> d]

Contract(strike, oi, type, expiry, iv, bid, ask, last) ==
  [strike |-> strike, openInterest |-> oi, type |-> type,
   expirationDate |-> expiry, impliedVolatility |-> iv,
   bid |-> bid, ask |-> ask, lastPrice |-> last]

(* A variant that compares the class as it is spelled.                     *)
LowerLeavesCase(s) == s

(* str.lower() on the option classes the model feeds in.                   *)
Lower(s) ==
  CASE s = "CALL" -> "call"
    [] s = "Call" -> "call"
    [] s = "PUT" -> "put"
    [] s = "Put" -> "put"
    [] OTHER -> s

(* A variant that counts a day against a value that is not an ISO date.   *)
TimeToExpiryUnparseableNegative(expiration_date_str, now) ==
  IF expiration_date_str.k = "date"
  THEN expiration_date_str.v - now
  ELSE -1

(* date.fromisoformat raises ValueError / TypeError on anything but an     *)
(* ISO date string; both are caught and 0.0 is returned.                   *)
_time_to_expiry_years(expiration_date_str, now) ==
  IF expiration_date_str.k = "date"
  THEN expiration_date_str.v - now
  ELSE 0

IsPositiveNumber(x) == x.k = "num" /\ x.v > 0

(* A variant that prefers the last traded price to the mid.                *)
ExtractLastPriceFirst(contract) ==
  IF IsPositiveNumber(contract.lastPrice)
  THEN Some(contract.lastPrice.v)
  ELSE IF IsPositiveNumber(contract.bid) /\ IsPositiveNumber(contract.ask)
  THEN Some((contract.bid.v + contract.ask.v) \div 2)
  ELSE None

_extract_market_price(contract) ==
  IF IsPositiveNumber(contract.bid) /\ IsPositiveNumber(contract.ask)
  THEN Some((contract.bid.v + contract.ask.v) \div 2)
  ELSE IF IsPositiveNumber(contract.lastPrice)
  THEN Some(contract.lastPrice.v)
  ELSE None

(* Lines 375-393: the volatility of one contract.  solver_calls and        *)
(* solver_price record the call of the bisection solver, if any.           *)
ResolveSigma(contract, S, K, T, option_type) ==
  LET iv_raw == contract.impliedVolatility IN
  IF IsPositiveNumber(iv_raw)
  THEN [exc |-> "", sigma |-> Some(iv_raw.v), solver_calls |-> 0, solver_price |-> None]
  ELSE
    LET market_price == _extract_market_price(contract) IN
    IF market_price # None
    THEN CHOOSE x \in
           { [exc |-> r.exc, sigma |-> r.val, solver_calls |-> 1,
              solver_price |-> market_price]
             : r \in { _implied_volatility_bisection(market_price[1], S, K, T,
                                                     option_type) } } : TRUE
    ELSE [exc |-> "", sigma |-> None, solver_calls |-> 0, solver_price |-> None]

Outcome(kind, why, K, option_type, T, oi, res, gex) ==
  [kind |-> kind, why |-> why, K |-> K, option_type |-> option_type, T |-> T,
   oi |-> oi, sigma |-> res.sigma, solver_calls |-> res.solver_calls,
   solver_price |-> res.solver_price, gex_magnitude |-> gex]

NoSigma == [exc |-> "", sigma |-> None, solver_calls |-> 0, solver_price |-> None]

(* Lines 346-414: the body of the for loop up to the GEX magnitude of one  *)
(* contract.  kind is "skip" (a continue), "raise" (an exception leaves    *)
(* the loop and calculate_gex) or "accept" (the contract is aggregated).   *)
(* res is bound once to the resolved volatility.                           *)
ProcessContract(contract, S, now) ==
  LET strike_raw == contract.strike
      oi_raw == contract.openInterest
      option_type == Lower(contract.type)
  IN
  IF strike_raw.k = "none" \/ oi_raw.k = "none" \/ option_type \notin {"call", "put"}
  THEN Outcome("skip", "missing", 0, option_type, 0, 0, NoSigma, 0)
  ELSE IF strike_raw.k # "num"
  THEN Outcome("raise", "ValueError", 0, option_type, 0, 0, NoSigma, 0)
  ELSE IF oi_raw.k # "num"
  THEN Outcome("raise", "ValueError", strike_raw.v, option_type, 0, 0, NoSigma, 0)
  ELSE
    LET K == strike_raw.v
        oi == oi_raw.v
    IN
    IF oi = 0
    THEN Outcome("skip", "zero_oi", K, option_type, 0, oi, NoSigma, 0)
    ELSE
      LET T == _time_to_expiry_years(contract.expirationDate, now) IN
      IF T <= 0
      THEN Outcome("skip", "expired", K, option_type, T, oi, NoSigma, 0)
      ELSE
        CHOOSE o \in
          { IF res.exc # ""
            THEN Outcome("raise", res.exc, K, option_type, T, oi, res, 0)
            ELSE IF res.sigma = None \/ res.sigma[1] <= 0
            THEN Outcome("skip", "no_iv", K, option_type, T, oi, res, 0)
            ELSE IF SigmaSqrtTBelowGuard(res.sigma[1], T)
            THEN Outcome("skip", "guard", K, option_type, T, oi, res, 0)
            ELSE IF _bs_d1_exc(S, K) # ""
            THEN Outcome("raise", _bs_d1_exc(S, K), K, option_type, T, oi, res, 0)
            ELSE
              LET gamma == _bs_gamma(S, K, res.sigma[1], T)
                  gex_magnitude == gamma * oi * CONTRACT_MULTIPLIER * (S ^ 2)
              IN  Outcome("accept", "", K, option_type, T, oi, res, gex_magnitude)
            : res \in { ResolveSigma(contract, S, K, T, option_type) } } : TRUE

(* Lines 416-422: the dict strike_gex is a sequence of entries in          *)
(* insertion order, one per key.                                           *)
HasKey(sg, K) == \E j \in 1..Len(sg) : sg[j].strike = K

(* A variant that assigns the magnitude instead of adding it.              *)
AccumulateOverwrite(sg, K, option_type, gex_magnitude) ==
  LET d == IF HasKey(sg, K) THEN sg
           ELSE Append(sg, [strike |-> K, call |-> 0, put |-> 0])
  IN  [j \in 1..Len(d) |->
         IF d[j].strike # K THEN d[j]
         ELSE IF option_type = "call"
              THEN [d[j] EXCEPT !.call = gex_magnitude]
              ELSE [d[j] EXCEPT !.put = -gex_magnitude]]

Accumulate(sg, K, option_type, gex_magnitude) ==
  LET d == IF HasKey(sg, K) THEN sg
           ELSE Append(sg, [strike |-> K, call |-> 0, put |-> 0])
  IN  [j \in 1..Len(d) |->
         IF d[j].strike # K THEN d[j]
         ELSE IF option_type = "call"
              THEN [d[j] EXCEPT !.call = @ + gex_magnitude]
              ELSE [d[j] EXCEPT !.put = @ + (-gex_magnitude)]]

---------------------------------------------------------------------------
(* Lines 433-467 and the post-processing helpers.                          *)

Keys(sg) == [j \in 1..Len(sg) |-> sg[j].strike]

RECURSIVE SortedSeqOf(_)
SortedSeqOf(set) ==
  IF set = {} THEN << >>
  ELSE LET m == CHOOSE x \in set : \A y \in set : x <= y
       IN  << m >> \o SortedSeqOf(set \ {m})

(* A variant that leaves the keys in insertion order.                      *)
InsertionOrderStrikes(keys) == keys

(* sorted(strike_gex.keys())                                               *)
SortedStrikes(keys) == SortedSeqOf({keys[j] : j \in 1..Len(keys)})

Entry(sg, K) == sg[CHOOSE j \in 1..Len(sg) : sg[j].strike = K]

GexStrike(strike, call_gex, put_gex, net_gex) ==
  [strike |-> strike, call_gex |-> call_gex, put_gex |-> put_gex, net_gex |-> net_gex]

(* Lines 434-443.                                                          *)
BuildStrikeRows(sg) ==
  LET sorted_strikes == SortedStrikes(Keys(sg))
  IN  [j \in 1..Len(sorted_strikes) |->
         LET call_gex == Entry(sg, sorted_strikes[j]).call
             put_gex == Entry(sg, sorted_strikes[j]).put
         IN  GexStrike(sorted_strikes[j], call_gex, put_gex, call_gex + put_gex)]

(* A variant that sums the call side only.                                 *)
RECURSIVE TotalOfCallGex(_)
TotalOfCallGex(rows) ==
  IF rows = << >> THEN 0
  ELSE rows[1].call_gex + TotalOfCallGex(Tail(rows))

(* sum(row.net_gex for row in strike_rows), line 445.                      *)
RECURSIVE TotalGex(_)
TotalGex(rows) ==
  IF rows = << >> THEN 0
  ELSE rows[1].net_gex + TotalGex(Tail(rows))

(* A variant whose flag remembers the previous row only.                   *)
RECURSIVE FlipScanPreviousRowOnly(_, _)
FlipScanPreviousRowOnly(rows, prev_negative) ==
  IF rows = << >> THEN None
  ELSE IF rows[1].net_gex < 0 THEN FlipScanPreviousRowOnly(Tail(rows), TRUE)
  ELSE IF rows[1].net_gex > 0 /\ prev_negative THEN Some(rows[1].strike)
  ELSE FlipScanPreviousRowOnly(Tail(rows), FALSE)

RECURSIVE FlipScan(_, _)
FlipScan(rows, prev_negative) ==
  IF rows = << >> THEN None
  ELSE IF rows[1].net_gex < 0 THEN FlipScan(Tail(rows), TRUE)
  ELSE IF rows[1].net_gex > 0 /\ prev_negative THEN Some(rows[1].strike)
  ELSE FlipScan(Tail(rows), prev_negative)

_find_gamma_flip(rows) == FlipScan(rows, FALSE)

IsPositiveRow(r) == r.net_gex > 0
IsNegativeRow(r) == r.net_gex < 0

(* A variant that returns the last of the rows that attain the maximum.    *)
MaxByNetTakesLast(rows) ==
  rows[CHOOSE j \in 1..Len(rows) :
         /\ \A m \in 1..Len(rows) : rows[m].net_gex <= rows[j].net_gex
         /\ \A m \in (j + 1)..Len(rows) : rows[m].net_gex < rows[j].net_gex]

(* max(rows, key=net_gex) and min(rows, key=net_gex) return the first of   *)
(* the rows that attain the extreme.                                       *)
PyMaxByNet(rows) ==
  rows[CHOOSE j \in 1..Len(rows) :
         /\ \A m \in 1..Len(rows) : rows[m].net_gex <= rows[j].net_gex
         /\ \A m \in 1..(j - 1) : rows[m].net_gex < rows[j].net_gex]

(* A variant that takes the negative row nearest to zero.                  *)
MinByNetTakesGreatest(rows) == PyMaxByNet(rows)

PyMinByNet(rows) ==
  rows[CHOOSE j \in 1..Len(rows) :
         /\ \A m \in 1..Len(rows) : rows[m].net_gex >= rows[j].net_gex
         /\ \A m \in 1..(j - 1) : rows[m].net_gex > rows[j].net_gex]

_compute_key_levels(rows, gamma_flip) ==
  IF rows = << >>
  THEN [max_positive_gex |-> None, max_negative_gex |-> None, gamma_flip |-> gamma_flip]
  ELSE
    LET positive_rows == SelectSeq(rows, IsPositiveRow)
        negative_rows == SelectSeq(rows, IsNegativeRow)
    IN  [max_positive_gex |-> IF positive_rows # << >>
                              THEN Some(PyMaxByNet(positive_rows).strike) ELSE None,
         max_negative_gex |-> IF negative_rows # << >>
                              THEN Some(PyMinByNet(negative_rows).strike) ELSE None,
         gamma_flip |-> gamma_flip]

GexResult(price, gamma_flip, total_gex, strikes, key_levels) ==
  [current_price |-> price, gamma_flip |-> gamma_flip, total_gex |-> total_gex,
   strikes |-> strikes, key_levels |-> key_levels]

(* Lines 326-337: the result for an empty chain or a non-positive spot.    *)
EmptyResult(price) ==
  GexResult(price, None, 0, << >>,
            [max_positive_gex |-> None, max_negative_gex |-> None, gamma_flip |-> None])

(* Lines 445-467.                                                          *)
PostProcess(rows, S) ==
  LET total_gex == TotalGex(rows)
      gamma_flip == _find_gamma_flip(rows)
      key_levels == _compute_key_levels(rows, gamma_flip)
  IN  GexResult(S, gamma_flip, total_gex, rows, key_levels)

(* A variant that checks the chain only.                                   *)
DegenerateInputEmptyChainOnly(chain, price) == chain = << >>

(* Line 322: not options_chain or current_price <= 0.                      *)
DegenerateInput(chain, price) == chain = << >> \/ price <= 0

NoResult == [current_price |-> 0, gamma_flip |-> None, total_gex |-> 0,
             strikes |-> << >>,
             key_levels |-> [max_positive_gex |-> None, max_negative_gex |-> None,
                             gamma_flip |-> None]]

---------------------------------------------------------------------------
(* Inputs.                                                                 *)

MaxChain == 3

(* A representable volatility, 0.4778125.                                  *)
Sig == IV_BISECT_LOW + 3 * KnotStep

Quoted(K, oi, type, expiry) ==
  Contract(Num(K), Num(oi), type, IsoDate(expiry), Num(Sig),
           Num(150000), Num(170000), Num(155000))

(* The contracts a chain is drawn from; the clock reads day 100.  Market   *)
(* prices of the contracts without a usable volatility: 563712 is the      *)
(* call price and 156773 the put price at volatility Sig; a price at       *)
(* IV_BISECT_TOLERANCE above the price of IV_BISECT_HIGH passes the range  *)
(* check and is met by no volatility.  The last contract has the           *)
(* volatility 1e-7 and three days to run: sigma * sqrt(T) < 1e-8.  The put  *)
(* at strike 8 with volatility 0.01 has a gamma of exactly 0.0: the        *)
(* density at d1 = 79 underflows.                                          *)
Contracts ==
  { Quoted(9, 1, "put", 130),
    Quoted(10, 1, "call", 130),
    Quoted(10, 1, "put", 130),
    Quoted(11, 2, "call", 130),
    Quoted(10, 2, "call", 160),
    Quoted(10, 0, "call", 130),
    Quoted(10, -1, "call", 130),
    Quoted(9, 1, "put", 99),
    Contract(Num(8), Num(3), "put", IsoDate(130), Num(IV_BISECT_LOW),
             Absent, Absent, Absent),
    Contract(Absent, Num(1), "call", IsoDate(130), Num(Sig), Absent, Absent, Absent),
    Contract(Str, Num(1), "call", IsoDate(130), Num(Sig), Absent, Absent, Absent),
    Contract(Num(0), Num(1), "call", IsoDate(130), Num(Sig), Absent, Absent, Absent),
    Contract(Num(-9), Num(1), "put", IsoDate(130), Num(Sig), Absent, Absent, Absent),
    Contract(Num(11), Str, "put", IsoDate(130), Num(Sig), Absent, Absent, Absent),
    Contract(Num(10), Num(1), "call", IsoDate(130), Absent,
             Num(563612), Num(563812), Num(500000)),
    Contract(Num(9), Num(2), "put", IsoDate(130), Num(0),
             Str, Num(160000), Num(156773)),
    Contract(Num(11), Num(1), "call", IsoDate(130), Str, Absent, Num(0), Absent),
    Contract(Num(11), Num(1), "call", IsoDate(160), Absent, Absent, Absent,
             Num(_bs_price(10, 11, IV_BISECT_HIGH, 60, "call") + IV_BISECT_TOLERANCE)),
    Quoted(11, 1, "Put", 160),
    Quoted(9, 1, "straddle", 130),
    Contract(Num(9), Num(1), "call", Str, Num(Sig), Absent, Absent, Absent),
    Contract(Num(10), Num(1), "put", IsoDate(103), Num(1), Absent, Absent, Absent) }

Spots == {-10, 0, 10}

(* settings.risk_free_rate, config.py line 41, in 1e-3.                    *)
Settings == [risk_free_rate |-> 45]

(* The values of the variables a specification does not use.               *)
NoArgs == [market_price |-> 0, S |-> 0, K |-> 0, sigma |-> 0, T |-> 0,
           option_type |-> ""]
NoLoop == [low |-> 0, high |-> 0, done |-> FALSE, val |-> None, iterations |-> 0]
NoOp == [name |-> "", key |-> "", ret |-> None, before |-> << >>]

HelperIdle == args = NoArgs /\ bisect = NoLoop
ConcIdle == settings = Settings /\ inv = << >> /\ cells = << >>
CacheIdle == store = << >> /\ clock = 0 /\ hist = << >> /\ op = NoOp

NoRequest == [pc |-> "", url |-> "", symbol |-> "", attempt |-> 0, response |-> "",
              sent |-> 0, waits |-> << >>, ret |-> None]
NoScheduler == [_running |-> FALSE, _tasks |-> << >>]
NoEvent == [name |-> ""]

ServiceIdle ==
  req = NoRequest /\ sched = NoScheduler /\ tasks = << >> /\ calls = {} /\ ev = NoEvent

---------------------------------------------------------------------------
(* calculate_gex, one invocation.                                          *)

Init ==
  /\ \E n \in 0..MaxChain : options_chain \in [1..n -> Contracts]
  /\ current_price \in Spots
  /\ today = 100
  /\ pc = "call"
  /\ idx = 0
  /\ strike_gex = << >>
  /\ log = << >>
  /\ exc = ""
  /\ result = NoResult
  /\ strike_rows = << >>
  /\ ret = None
  /\ HelperIdle /\ ConcIdle /\ CacheIdle /\ ServiceIdle

(* Lines 320-343: the degenerate-input return, or the set-up of the loop.  *)
Enter ==
  /\ pc = "call"
  /\ UNCHANGED service_vars
  /\ UNCHANGED << helper_vars, conc_vars, cache_vars >>
  /\ IF DegenerateInput(options_chain, current_price)
     THEN /\ result' = EmptyResult(current_price)
          /\ pc' = "done"
          /\ idx' = idx
     ELSE /\ result' = result
          /\ pc' = "loop"
          /\ idx' = 1
  /\ UNCHANGED << options_chain, current_price, today, strike_gex, log, exc,
                  strike_rows, ret >>

(* Lines 345-431: one iteration of the for loop.                           *)
LoopBody ==
  /\ pc = "loop"
  /\ UNCHANGED service_vars
  /\ UNCHANGED << helper_vars, conc_vars, cache_vars >>
  /\ idx <= Len(options_chain)
  /\ \E o \in { ProcessContract(options_chain[idx], current_price, today) } :
       /\ log' = Append(log, o)
       /\ IF o.kind = "raise"
          THEN /\ exc' = o.why
               /\ pc' = "raised"
               /\ UNCHANGED << idx, strike_gex >>
          ELSE /\ idx' = idx + 1
               /\ strike_gex' = IF o.kind = "accept"
                                THEN Accumulate(strike_gex, o.K, o.option_type,
                                                o.gex_magnitude)
                                ELSE strike_gex
               /\ UNCHANGED << exc, pc >>
  /\ UNCHANGED << options_chain, current_price, today, result, strike_rows, ret >>

(* Lines 433-467: the rows, the flip, the key levels, the return.          *)
Return ==
  /\ pc = "loop"
  /\ UNCHANGED service_vars
  /\ UNCHANGED << helper_vars, conc_vars, cache_vars >>
  /\ idx > Len(options_chain)
  /\ result' = PostProcess(BuildStrikeRows(strike_gex), current_price)
  /\ pc' = "done"
  /\ UNCHANGED << options_chain, current_price, today, idx, strike_gex, log, exc,
                  strike_rows, ret >>

Next == Enter \/ LoopBody \/ Return

Spec == Init /\ [][Next]_vars

---------------------------------------------------------------------------
(* The post-processing helpers on their own, over every ascending list of  *)
(* rows with strikes in 1..MaxRowStrike and net GEX in -NetBound..NetBound.*)

MaxRowStrike == 4
NetBound == 2

RowOfNet(strike, net) ==
  GexStrike(strike, IF net > 0 THEN net ELSE 0, IF net < 0 THEN net ELSE 0, net)

(* The ascending list of rows with the strikes of set and the net GEX f.   *)
RowsOf(set, f) ==
  LET strikes == SortedSeqOf(set)
  IN  [j \in 1..Len(strikes) |-> RowOfNet(strikes[j], f[strikes[j]])]

InitRows ==
  /\ \E set \in SUBSET (1..MaxRowStrike) :
       \E f \in [set -> (-NetBound)..NetBound] : strike_rows = RowsOf(set, f)
  /\ pc = "helper"
  /\ options_chain = << >>
  /\ current_price = 10
  /\ today = 100
  /\ idx = 0
  /\ strike_gex = << >>
  /\ log = << >>
  /\ exc = ""
  /\ result = NoResult
  /\ ret = None
  /\ HelperIdle /\ ConcIdle /\ CacheIdle /\ ServiceIdle

CallFindGammaFlip ==
  /\ pc = "helper"
  /\ UNCHANGED service_vars
  /\ UNCHANGED << helper_vars, conc_vars, cache_vars >>
  /\ ret' = _find_gamma_flip(strike_rows)
  /\ pc' = "flip_returned"
  /\ UNCHANGED << options_chain, current_price, today, idx, strike_gex, log, exc,
                  result, strike_rows >>

CallPostProcess ==
  /\ pc = "helper"
  /\ UNCHANGED service_vars
  /\ UNCHANGED << helper_vars, conc_vars, cache_vars >>
  /\ result' = PostProcess(strike_rows, current_price)
  /\ pc' = "post_returned"
  /\ UNCHANGED << options_chain, current_price, today, idx, strike_gex, log, exc,
                  strike_rows, ret >>

NextRows == CallFindGammaFlip \/ CallPostProcess

SpecRows == InitRows /\ [][NextRows]_vars

---------------------------------------------------------------------------
(* _implied_volatility_bisection called on its own, one iteration of its   *)
(* loop per step.                                                          *)

TableStrikes == {8, 9, 10, 11}
TableExpiries == {30, 60}
OptionTypes == {"call", "put"}

(* Volatilities to price at: the ends of the bracket, Sig, and one         *)
(* representable volatility near 1.57.                                     *)
SigmaTrues ==
  { IV_BISECT_LOW, Sig, IV_BISECT_LOW + 10 * KnotStep + 5 * SigmaUlp, IV_BISECT_HIGH }

SolverArgs(market_price, K, sigma, T, option_type) ==
  [market_price |-> market_price, S |-> 10, K |-> K, sigma |-> sigma, T |-> T,
   option_type |-> option_type]

(* Market prices at and next to each threshold of lines 178-208.           *)
ThresholdPrices(K, T, option_type) ==
  LET intrinsic == Intrinsic(10, K, T, option_type)
      price_low == _bs_price(10, K, IV_BISECT_LOW, T, option_type)
      price_high == _bs_price(10, K, IV_BISECT_HIGH, T, option_type)
  IN  { -1, 0,
        intrinsic - IV_BISECT_TOLERANCE - 1, intrinsic - IV_BISECT_TOLERANCE,
        price_low - IV_BISECT_TOLERANCE - 1, price_low - IV_BISECT_TOLERANCE,
        price_low - IV_BISECT_TOLERANCE + 1,
        price_high + IV_BISECT_TOLERANCE - 1, price_high + IV_BISECT_TOLERANCE,
        price_high + IV_BISECT_TOLERANCE + 1 }

(* The calls of the solver: a price at a threshold, the price of a known   *)
(* volatility (sigma records it, 0 otherwise), and a strike of 0.          *)
SolverCalls ==
  UNION { { SolverArgs(m, K, 0, T, ty) : m \in ThresholdPrices(K, T, ty) }
            \cup { SolverArgs(_bs_price(10, K, s, T, ty), K, s, T, ty) : s \in SigmaTrues }
          : K \in TableStrikes, T \in TableExpiries, ty \in OptionTypes }
    \cup { SolverArgs(m, 0, 0, 30, ty) : m \in {0, 1, 10 * PriceUnit}, ty \in OptionTypes }

InitSolver ==
  /\ args \in SolverCalls
  /\ bisect = NoLoop
  /\ pc = "solver"
  /\ ret = None
  /\ exc = ""
  /\ options_chain = << >>
  /\ current_price = 10
  /\ today = 100
  /\ idx = 0
  /\ strike_gex = << >>
  /\ log = << >>
  /\ result = NoResult
  /\ strike_rows = << >>
  /\ ConcIdle /\ CacheIdle /\ ServiceIdle

(* Lines 178-208: a return of None, an exception, or the entry of the loop *)
(* with low, high = IV_BISECT_LOW, IV_BISECT_HIGH.                         *)
SolverEnter ==
  /\ pc = "solver"
  /\ UNCHANGED service_vars
  /\ \E pre \in { SolverPrecondition(args.market_price, args.S, args.K, args.T,
                                     args.option_type) } :
       IF pre = "none"
       THEN pc' = "solver_returned" /\ UNCHANGED << bisect, exc >>
       ELSE IF pre # "search"
       THEN pc' = "solver_raised" /\ exc' = pre /\ UNCHANGED bisect
       ELSE /\ pc' = "bisect"
            /\ bisect' = [low |-> IV_BISECT_LOW, high |-> IV_BISECT_HIGH,
                          done |-> FALSE, val |-> None, iterations |-> 0]
            /\ UNCHANGED exc
  /\ UNCHANGED << options_chain, current_price, today, idx, strike_gex, log, result,
                  strike_rows, ret, args, conc_vars, cache_vars >>

(* Lines 210-225: one iteration; the return of line 219 when it converges. *)
SolverIterate ==
  /\ pc = "bisect"
  /\ UNCHANGED service_vars
  /\ bisect.iterations < IV_BISECT_MAX_ITER
  /\ \E n \in { BisectStep(bisect, args.market_price, args.S, args.K, args.T,
                           args.option_type) } :
       /\ bisect' = n
       /\ IF n.done
          THEN pc' = "solver_returned" /\ ret' = n.val
          ELSE UNCHANGED << pc, ret >>
  /\ UNCHANGED << options_chain, current_price, today, idx, strike_gex, log, exc,
                  result, strike_rows, args, conc_vars, cache_vars >>

(* Lines 227-233: the range is exhausted, return None.                     *)
SolverExhaust ==
  /\ pc = "bisect"
  /\ UNCHANGED service_vars
  /\ bisect.iterations >= IV_BISECT_MAX_ITER
  /\ pc' = "solver_returned"
  /\ ret' = None
  /\ UNCHANGED << options_chain, current_price, today, idx, strike_gex, log, exc,
                  result, strike_rows, args, bisect, conc_vars, cache_vars >>

NextSolver == SolverEnter \/ SolverIterate \/ SolverExhaust

SpecSolver == InitSolver /\ [][NextSolver]_vars

---------------------------------------------------------------------------
(* Termination: the solver on its own, and calculate_gex on the chains of  *)
(* the contracts that come without a usable volatility.  A call that has   *)
(* a next step takes it.                                                   *)

MaxSolverChain == 2

SolverContracts == { c \in Contracts : ~IsPositiveNumber(c.impliedVolatility) }

InitSolverChain ==
  /\ \E n \in 0..MaxSolverChain : options_chain \in [1..n -> SolverContracts]
  /\ current_price = 10
  /\ today = 100
  /\ pc = "call"
  /\ idx = 0
  /\ strike_gex = << >>
  /\ log = << >>
  /\ exc = ""
  /\ result = NoResult
  /\ strike_rows = << >>
  /\ ret = None
  /\ HelperIdle /\ ConcIdle /\ CacheIdle /\ ServiceIdle

InitTermination == InitSolver \/ InitSolverChain

NextTermination == NextSolver \/ Next

SpecTermination ==
  InitTermination /\ [][NextTermination]_vars /\ WF_vars(NextTermination)

---------------------------------------------------------------------------
(* The fields of a contract: calculate_gex on short chains of contracts    *)
(* that differ in one field, and _bs_gamma called on its own.              *)

MaxFieldChain == 2

OfClass(type) ==
  Contract(Num(10), Num(1), type, IsoDate(130), Num(Sig), Absent, Absent, Absent)

Expiring(expiry) ==
  Contract(Num(9), Num(2), "put", expiry, Num(Sig), Absent, Absent, Absent)

WithSigma(sigma, expiry) ==
  Contract(Num(10), Num(1), "call", IsoDate(expiry), Num(sigma), Absent, Absent, Absent)

(* The option class in several letter cases, unknown and missing; strike   *)
(* or open interest missing, alone and next to a field that float() or     *)
(* int() would reject; expirationDate a date ahead, today, past, not a     *)
(* date, missing, a number; volatilities of 1e-7 and 2e-7 with one to      *)
(* three days to run.                                                      *)
FieldContracts ==
  { OfClass(t) : t \in {"call", "put", "CALL", "Call", "PUT", "Put", "straddle", ""} }
    \cup { Contract(Absent, Num(1), "call", IsoDate(130), Num(Sig), Absent, Absent, Absent),
           Contract(Num(10), Absent, "call", IsoDate(130), Num(Sig), Absent, Absent, Absent),
           Contract(Absent, Str, "put", IsoDate(130), Num(Sig), Absent, Absent, Absent),
           Contract(Str, Absent, "put", IsoDate(130), Num(Sig), Absent, Absent, Absent),
           Contract(Str, Num(1), "straddle", IsoDate(130), Num(Sig), Absent, Absent, Absent) }
    \cup { Expiring(e) : e \in { IsoDate(130), IsoDate(160), IsoDate(100), IsoDate(99),
                                 Str, Absent, Num(130) } }
    \cup { WithSigma(1, 101), WithSigma(1, 103), WithSigma(2, 101), WithSigma(1, 130) }

(* The calls of _bs_gamma: volatilities of the bracket at the tabulated    *)
(* strikes and expiries, and volatilities of 1e-7 and 2e-7 with one to     *)
(* four days to run at the strikes 0 and 10.                               *)
GammaCalls ==
  { SolverArgs(0, K, s, T, "") : K \in TableStrikes, s \in SigmaTrues, T \in TableExpiries }
    \cup { SolverArgs(0, K, s, T, "") : K \in {0, 10}, s \in {1, 2}, T \in 1..4 }

InitFieldChain ==
  /\ \E n \in 0..MaxFieldChain : options_chain \in [1..n -> FieldContracts]
  /\ current_price = 10
  /\ today = 100
  /\ pc = "call"
  /\ idx = 0
  /\ strike_gex = << >>
  /\ log = << >>
  /\ exc = ""
  /\ result = NoResult
  /\ strike_rows = << >>
  /\ ret = None
  /\ HelperIdle /\ ConcIdle /\ CacheIdle /\ ServiceIdle

InitGamma ==
  /\ args \in GammaCalls
  /\ bisect = NoLoop
  /\ pc = "gamma"
  /\ ret = None
  /\ exc = ""
  /\ options_chain = << >>
  /\ current_price = 10
  /\ today = 100
  /\ idx = 0
  /\ strike_gex = << >>
  /\ log = << >>
  /\ result = NoResult
  /\ strike_rows = << >>
  /\ ConcIdle /\ CacheIdle /\ ServiceIdle

InitFields == InitFieldChain \/ InitGamma

(* Lines 130-144: _bs_gamma returns, or the exception of _bs_d1 leaves it. *)
CallBsGamma ==
  /\ pc = "gamma"
  /\ UNCHANGED service_vars
  /\ \E e \in { _bs_gamma_exc(args.S, args.K, args.sigma, args.T) } :
       IF e # ""
       THEN pc' = "gamma_raised" /\ exc' = e /\ UNCHANGED ret
       ELSE /\ pc' = "gamma_returned"
            /\ ret' = Some(_bs_gamma(args.S, args.K, args.sigma, args.T))
            /\ UNCHANGED exc
  /\ UNCHANGED << options_chain, current_price, today, idx, strike_gex, log, result,
                  strike_rows, helper_vars, conc_vars, cache_vars >>

NextFields == Next \/ CallBsGamma

SpecFields == InitFields /\ [][NextFields]_vars

---------------------------------------------------------------------------
(* calculate_gex on chains whose contracts meet at a strike: the order of  *)
(* the contracts decides the order of the additions and of the keys of     *)
(* strike_gex.                                                             *)

MaxOrderChain == 3

OrderContracts ==
  { Quoted(10, 1, "call", 130),
    Quoted(10, 1, "put", 130),
    Quoted(10, 2, "call", 160),
    Quoted(11, 2, "call", 130),
    Quoted(9, 1, "put", 130),
    Quoted(9, 3, "put", 160),
    Quoted(10, -1, "call", 130),
    Quoted(10, 0, "put", 130),
    Contract(Str, Num(1), "call", IsoDate(130), Num(Sig), Absent, Absent, Absent) }

InitOrder ==
  /\ \E n \in 0..MaxOrderChain : options_chain \in [1..n -> OrderContracts]
  /\ current_price = 10
  /\ today = 100
  /\ pc = "call"
  /\ idx = 0
  /\ strike_gex = << >>
  /\ log = << >>
  /\ exc = ""
  /\ result = NoResult
  /\ strike_rows = << >>
  /\ ret = None
  /\ HelperIdle /\ ConcIdle /\ CacheIdle /\ ServiceIdle

SpecOrder == InitOrder /\ [][Next]_vars

---------------------------------------------------------------------------
(* Concurrent invocations of calculate_gex.  Each has its own frame of     *)
(* arguments and locals; the objects they could share are the module-level *)
(* settings, the system date, and the dicts in cells.  A step is the       *)
(* entry, one iteration of the loop, or the return; the steps of the       *)
(* invocations interleave freely, and the date may change between two of   *)
(* them.                                                                   *)

InvocationIds == {"a", "b"}

MaxTicks == 1

(* Contracts at strike 10 that expire on day 101, one day ahead of the     *)
(* first reading of the clock.                                             *)
ExpiringTomorrow(oi, type) ==
  Contract(Num(10), Num(oi), type, IsoDate(101), Num(Sig), Absent, Absent, Absent)

ConcContracts ==
  { ExpiringTomorrow(1, "call"), ExpiringTomorrow(2, "put") }

(* The chains an invocation is called with: empty, one contract, two.     *)
ConcChains ==
  { << >> } \cup { << c >> : c \in ConcContracts }
    \cup { << c, d >> : c \in ConcContracts, d \in ConcContracts }

(* A variant with one dict for every invocation.                           *)
ModuleLevelCell(p) == "a"

(* Line 343: strike_gex = {} binds a local name to a new dict, one per     *)
(* invocation.                                                             *)
StrikeGexCell(p) == p

Frame(chain, price) ==
  [options_chain |-> chain, called_with |-> chain, current_price |-> price,
   pc |-> "call", idx |-> 0, r |-> 0, called_at |-> 0, dates |-> << >>,
   exc |-> "", result |-> NoResult]

InitConcurrent ==
  /\ inv \in [InvocationIds ->
               { Frame(chain, 10) : chain \in ConcChains }]
  /\ cells = [c \in InvocationIds |-> << >>]
  /\ settings = Settings
  /\ today = 100
  /\ pc = "concurrent"
  /\ options_chain = << >>
  /\ current_price = 10
  /\ idx = 0
  /\ strike_gex = << >>
  /\ log = << >>
  /\ exc = ""
  /\ result = NoResult
  /\ strike_rows = << >>
  /\ ret = None
  /\ HelperIdle /\ CacheIdle /\ ServiceIdle

(* Lines 320-343 of invocation p.                                          *)
ConcEnter(p) ==
  /\ inv[p].pc = "call"
  /\ UNCHANGED service_vars
  /\ IF DegenerateInput(inv[p].options_chain, inv[p].current_price)
     THEN /\ inv' = [inv EXCEPT ![p].result = EmptyResult(inv[p].current_price),
                                ![p].pc = "done",
                                ![p].called_at = today]
          /\ UNCHANGED cells
     ELSE /\ inv' = [inv EXCEPT ![p].r = settings.risk_free_rate,
                                ![p].pc = "loop",
                                ![p].idx = 1,
                                ![p].called_at = today]
          /\ cells' = [cells EXCEPT ![StrikeGexCell(p)] = << >>]
  /\ UNCHANGED << engine_vars, helper_vars, cache_vars, settings >>

(* Lines 345-431 of invocation p: one iteration; date.today() is read at   *)
(* line 251.                                                               *)
ConcLoopBody(p) ==
  /\ inv[p].pc = "loop"
  /\ UNCHANGED service_vars
  /\ inv[p].idx <= Len(inv[p].options_chain)
  /\ \E o \in { ProcessContract(inv[p].options_chain[inv[p].idx],
                                inv[p].current_price, today) } :
       IF o.kind = "raise"
       THEN /\ inv' = [inv EXCEPT ![p].exc = o.why,
                                  ![p].pc = "raised",
                                  ![p].dates = Append(@, today)]
            /\ UNCHANGED cells
       ELSE /\ inv' = [inv EXCEPT ![p].idx = @ + 1,
                                  ![p].dates = Append(@, today)]
            /\ cells' = IF o.kind = "accept"
                        THEN [cells EXCEPT ![StrikeGexCell(p)] =
                                Accumulate(@, o.K, o.option_type, o.gex_magnitude)]
                        ELSE cells
  /\ UNCHANGED << engine_vars, helper_vars, cache_vars, settings >>

(* Lines 433-467 of invocation p.                                          *)
ConcReturn(p) ==
  /\ inv[p].pc = "loop"
  /\ UNCHANGED service_vars
  /\ inv[p].idx > Len(inv[p].options_chain)
  /\ inv' = [inv EXCEPT ![p].result =
               PostProcess(BuildStrikeRows(cells[StrikeGexCell(p)]),
                           inv[p].current_price),
                        ![p].pc = "done"]
  /\ UNCHANGED << engine_vars, helper_vars, cache_vars, settings, cells >>

ConcStep(p) == ConcEnter(p) \/ ConcLoopBody(p) \/ ConcReturn(p)

(* Midnight: date.today() returns the next day from now on.                *)
Tick ==
  /\ pc = "concurrent"
  /\ UNCHANGED service_vars
  /\ today < 100 + MaxTicks
  /\ today' = today + 1
  /\ UNCHANGED << options_chain, current_price, pc, idx, strike_gex, log, exc, result,
                  strike_rows, ret, helper_vars, conc_vars, cache_vars >>

NextConcurrent == (\E p \in InvocationIds : ConcStep(p)) \/ Tick

SpecConcurrent == InitConcurrent /\ [][NextConcurrent]_vars

---------------------------------------------------------------------------
(* TTLCache, cache.py: _store maps a key to (value, expiry).  clock is     *)
(* time.time() in seconds.  hist remembers, for every key ever set, the    *)
(* value, the time and the ttl of the latest set, whether a delete or a    *)
(* clear came after it (removed) and whether a get came after its ttl had  *)
(* elapsed (collected); op is the operation just performed, what it        *)
(* returned and the store it found.                                        *)

CacheKeys == {"a", "b"}
CacheValues == {1, 2}
Ttls == {1, 2}
MaxTime == 2

Put(f, k, e) == [x \in DOMAIN f \cup {k} |-> IF x = k THEN e ELSE f[x]]
Without(f, k) == [x \in DOMAIN f \ {k} |-> f[x]]

(* A variant that leaves an expired entry where it is.                      *)
LeaveExpired(f, key) == f

(* Line 57: del self._store[key].                                          *)
EvictExpired(f, key) == Without(f, key)

(* Lines 95-104: len(self._store).                                         *)
size(f) == Cardinality(DOMAIN f)

(* A variant that serves an entry at its expiry time.                      *)
FreshAtExpiry(now, expiry) == now <= expiry

(* Line 52: time.time() < expiry.                                          *)
Fresh(now, expiry) == now < expiry

InitCache ==
  /\ store = << >>
  /\ clock = 0
  /\ hist = << >>
  /\ op = NoOp
  /\ pc = "cache"
  /\ options_chain = << >>
  /\ current_price = 10
  /\ today = 100
  /\ idx = 0
  /\ strike_gex = << >>
  /\ log = << >>
  /\ exc = ""
  /\ result = NoResult
  /\ strike_rows = << >>
  /\ ret = None
  /\ HelperIdle /\ ConcIdle /\ ServiceIdle

(* Lines 61-72.                                                            *)
CacheSet(key, value, ttl) ==
  /\ pc = "cache"
  /\ UNCHANGED service_vars
  /\ store' = Put(store, key, [value |-> value, expiry |-> clock + ttl])
  /\ hist' = Put(hist, key, [value |-> value, time |-> clock, ttl |-> ttl,
                             removed |-> FALSE, collected |-> FALSE])
  /\ op' = [name |-> "set", key |-> key, ret |-> None, before |-> store]
  /\ UNCHANGED << engine_vars, helper_vars, conc_vars, clock >>

(* Lines 34-58: a miss, a hit, or the removal of an expired entry.         *)
CacheGet(key) ==
  /\ pc = "cache"
  /\ UNCHANGED service_vars
  /\ IF key \notin DOMAIN store
     THEN /\ op' = [name |-> "get", key |-> key, ret |-> None, before |-> store]
          /\ UNCHANGED store
     ELSE IF Fresh(clock, store[key].expiry)
     THEN /\ op' = [name |-> "get", key |-> key, ret |-> Some(store[key].value),
                    before |-> store]
          /\ UNCHANGED store
     ELSE /\ store' = EvictExpired(store, key)
          /\ op' = [name |-> "get", key |-> key, ret |-> None, before |-> store]
  /\ hist' = [x \in DOMAIN hist |->
                IF x = key /\ ~hist[x].removed /\ clock >= hist[x].time + hist[x].ttl
                THEN [hist[x] EXCEPT !.collected = TRUE] ELSE hist[x]]
  /\ UNCHANGED << engine_vars, helper_vars, conc_vars, clock >>

(* Lines 75-87: pop(key, None).                                            *)
CacheDelete(key) ==
  /\ pc = "cache"
  /\ UNCHANGED service_vars
  /\ store' = Without(store, key)
  /\ hist' = [x \in DOMAIN hist |->
                IF x = key THEN [hist[x] EXCEPT !.removed = TRUE] ELSE hist[x]]
  /\ op' = [name |-> "delete", key |-> key, ret |-> None, before |-> store]
  /\ UNCHANGED << engine_vars, helper_vars, conc_vars, clock >>

(* Lines 89-93.                                                            *)
CacheClear ==
  /\ pc = "cache"
  /\ UNCHANGED service_vars
  /\ store' = << >>
  /\ hist' = [x \in DOMAIN hist |-> [hist[x] EXCEPT !.removed = TRUE]]
  /\ op' = [name |-> "clear", key |-> "", ret |-> None, before |-> store]
  /\ UNCHANGED << engine_vars, helper_vars, conc_vars, clock >>

(* time.time() moves on by a second.                                       *)
Advance ==
  /\ pc = "cache"
  /\ UNCHANGED service_vars
  /\ clock < MaxTime
  /\ clock' = clock + 1
  /\ op' = [name |-> "advance", key |-> "", ret |-> None, before |-> store]
  /\ UNCHANGED << engine_vars, helper_vars, conc_vars, store, hist >>

NextCache ==
  \/ \E key \in CacheKeys, value \in CacheValues, ttl \in Ttls : CacheSet(key, value, ttl)
  \/ \E key \in CacheKeys : CacheGet(key)
  \/ \E key \in CacheKeys : CacheDelete(key)
  \/ CacheClear
  \/ Advance

SpecCache == InitCache /\ [][NextCache]_vars

---------------------------------------------------------------------------
(* DataRefreshScheduler, scheduler.py.  sched holds _running and _tasks;   *)
(* tasks maps every asyncio task ever created to its position in           *)
(* _run_periodic_task; calls holds the stop() coroutines suspended at      *)
(* their gather; ev is the step just taken.  A step runs a coroutine from  *)
(* one await to the next, as the event loop does.  The reads of            *)
(* time.time() all return the same second.                                 *)

cache_ttl_price == 5
cache_ttl_polymarket == 30
cache_ttl_social == 60
cache_ttl_earnings == 86400
cache_ttl_hyperscaler == 86400

hyperscaler_tickers == << "MSFT", "GOOGL", "AMZN", "META" >>

(* Lines 232-247: per ticker the cash flow key, then the income key.       *)
HyperscalerKeys ==
  [i \in 1..(2 * Len(hyperscaler_tickers)) |->
     IF i % 2 = 1
     THEN "hyperscaler:cashflow:" \o hyperscaler_tickers[(i + 1) \div 2]
     ELSE "hyperscaler:income:" \o hyperscaler_tickers[i \div 2]]

(* The six jobs of start(), lines 62-93, each with the cache keys its      *)
(* refresh function fetches and stores, in order.                          *)
RefreshJobs ==
  << [name |-> "prices", keys |-> << "price:NVDA" >>, ttl |-> cache_ttl_price,
      interval |-> cache_ttl_price, raises |-> FALSE],
     [name |-> "correlated_prices", keys |-> << "price:correlated" >>,
      ttl |-> cache_ttl_price, interval |-> cache_ttl_price, raises |-> FALSE],
     [name |-> "polymarket", keys |-> << "polymarket:NVDA" >>,
      ttl |-> cache_ttl_polymarket, interval |-> cache_ttl_polymarket,
      raises |-> FALSE],
     [name |-> "social_sentiment", keys |-> << "sentiment:NVDA" >>,
      ttl |-> cache_ttl_social, interval |-> cache_ttl_social, raises |-> FALSE],
     [name |-> "earnings",
      keys |-> << "earnings:calendar", "earnings:estimates:NVDA" >>,
      ttl |-> cache_ttl_earnings, interval |-> cache_ttl_earnings,
      raises |-> FALSE],
     [name |-> "hyperscaler", keys |-> HyperscalerKeys,
      ttl |-> cache_ttl_hyperscaler, interval |-> cache_ttl_hyperscaler,
      raises |-> FALSE] >>

(* test_scheduler.py lines 289-294: a task_func that raises, interval 0.   *)
failing_task ==
  [name |-> "test_task", keys |-> << >>, ttl |-> 0, interval |-> 0, raises |-> TRUE]

TaskFuncs == { RefreshJobs[i] : i \in DOMAIN RefreshJobs } \cup { failing_task }

JobOf(name) == CHOOSE j \in TaskFuncs : j.name = name

(* What a client call comes back with: an exception, None, an empty list,  *)
(* a list of records.                                                      *)
NoData == [none |-> TRUE, items |-> << >>]
EmptyData == [none |-> FALSE, items |-> << >>]
SomeData == [none |-> FALSE, items |-> << [symbol |-> "NVDA", price |-> 1] >>]
FetchResults ==
  { [raised |-> TRUE, data |-> NoData],
    [raised |-> FALSE, data |-> NoData],
    [raised |-> FALSE, data |-> EmptyData],
    [raised |-> FALSE, data |-> SomeData] }

(* A variant that stores whatever is not None.                             *)
IsNotNone(data) == ~data.none

(* Lines 166, 179, 191, 202, 214, 221, 235, 243: if data.                  *)
Truthy(data) == ~data.none /\ Len(data.items) > 0

(* Line 180: {q["symbol"]: q for q in quotes if "symbol" in q}.            *)
by_symbol(items) ==
  [s \in { items[i].symbol : i \in { j \in DOMAIN items : "symbol" \in DOMAIN items[j] } } |->
     LET last == CHOOSE i \in DOMAIN items :
                   /\ "symbol" \in DOMAIN items[i]
                   /\ items[i].symbol = s
                   /\ \A j \in DOMAIN items :
                        ("symbol" \in DOMAIN items[j] /\ items[j].symbol = s) => j <= i
     IN items[last]]

(* What the refresh function hands to cache.set.                           *)
Stored(job, data) ==
  IF job.name = "correlated_prices" THEN by_symbol(data.items) ELSE data.items

(* cache.set as the refresh functions call it, cache.py lines 70-71.       *)
CacheAfter(f, job, key, fetched) ==
  IF ~fetched.raised /\ Truthy(fetched.data)
  THEN Put(f, key, [value |-> Stored(job, fetched.data), expiry |-> clock + job.ttl])
  ELSE f

(* The starts of one scheduler, in order: the asyncio tasks of one start() *)
(* are named by its generation and their job.                              *)
Generations == << "g1", "g2" >>

MaxJobs == 2

(* The create_task calls of start() that are followed, the first MaxJobs   *)
(* of the six.                                                             *)
StartedJobs ==
  [i \in 1..(IF MaxJobs < Len(RefreshJobs) THEN MaxJobs ELSE Len(RefreshJobs)) |->
     RefreshJobs[i]]

NewTask == [pc |-> "created", k |-> 0, cancel |-> FALSE, lap |-> 0]

Alive(t) == tasks[t].pc # "done"

Done(t) == [tasks[t] EXCEPT !.pc = "done", !.k = 0, !.cancel = FALSE]

(* A variant in which an exception of task_func leaves the loop.           *)
EnterLoopUncaught(t) ==
  IF ~sched._running \/ JobOf(t[2]).raises
  THEN Done(t)
  ELSE [tasks[t] EXCEPT !.pc = "refresh", !.k = 1, !.lap = 1 - @]

(* Lines 141-150: the loop test, then the call of task_func up to its      *)
(* first await; a task_func that raises is logged and the loop goes on to  *)
(* its sleep.  lap is the parity of the number of calls of task_func.      *)
EnterLoop(t) ==
  IF ~sched._running
  THEN Done(t)
  ELSE IF JobOf(t[2]).raises
  THEN [tasks[t] EXCEPT !.pc = "sleep", !.k = 0, !.lap = 1 - @]
  ELSE [tasks[t] EXCEPT !.pc = "refresh", !.k = 1, !.lap = 1 - @]

EnterEvent(t) ==
  IF ~sched._running THEN [name |-> "exit", task |-> t]
  ELSE IF JobOf(t[2]).raises THEN [name |-> "error", task |-> t]
  ELSE [name |-> "invoke", task |-> t]

(* The first step of a task: cancelled before it ever ran, or line 139 and *)
(* the loop.                                                               *)
TaskEnter(t) ==
  /\ pc = "scheduler"
  /\ t \in DOMAIN tasks
  /\ tasks[t].pc = "created"
  /\ IF tasks[t].cancel
     THEN /\ tasks' = [tasks EXCEPT ![t] = Done(t)]
          /\ ev' = [name |-> "cancelled", task |-> t]
     ELSE /\ tasks' = [tasks EXCEPT ![t] = EnterLoop(t)]
          /\ ev' = EnterEvent(t)
  /\ UNCHANGED << engine_vars, helper_vars, conc_vars, cache_vars, req, sched, calls >>

(* A refresh function resumes from the await of its k-th client call:      *)
(* CancelledError passes its except Exception and ends the task; otherwise *)
(* lines 164-170 (and their like) store or log, and the function goes on   *)
(* to its next client call or returns to the loop, which sleeps (line 154).*)
TaskFetch(t) ==
  /\ pc = "scheduler"
  /\ t \in DOMAIN tasks
  /\ tasks[t].pc = "refresh"
  /\ IF tasks[t].cancel
     THEN /\ tasks' = [tasks EXCEPT ![t] = Done(t)]
          /\ ev' = [name |-> "cancelled", task |-> t]
          /\ UNCHANGED store
     ELSE \E fetched \in FetchResults :
            LET job == JobOf(t[2])
                key == job.keys[tasks[t].k]
            IN /\ store' = CacheAfter(store, job, key, fetched)
               /\ tasks' = [tasks EXCEPT ![t] =
                              IF tasks[t].k < Len(job.keys)
                              THEN [@ EXCEPT !.k = @ + 1]
                              ELSE [@ EXCEPT !.pc = "sleep", !.k = 0]]
               /\ ev' = [name |-> "fetch", task |-> t, key |-> key,
                         fetched |-> fetched, k |-> tasks[t].k, before |-> store]
  /\ UNCHANGED << engine_vars, helper_vars, conc_vars, clock, hist, op, req, sched,
                  calls >>

(* Lines 153-157 and 141: the sleep ends, with CancelledError (break) or   *)
(* normally (the loop test again).                                         *)
TaskWake(t) ==
  /\ pc = "scheduler"
  /\ t \in DOMAIN tasks
  /\ tasks[t].pc = "sleep"
  /\ IF tasks[t].cancel
     THEN /\ tasks' = [tasks EXCEPT ![t] = Done(t)]
          /\ ev' = [name |-> "cancelled", task |-> t]
     ELSE /\ tasks' = [tasks EXCEPT ![t] = EnterLoop(t)]
          /\ ev' = EnterEvent(t)
  /\ UNCHANGED << engine_vars, helper_vars, conc_vars, cache_vars, req, sched, calls >>

TaskStep(t) == TaskEnter(t) \/ TaskFetch(t) \/ TaskWake(t)

UsedGenerations == { t[1] : t \in DOMAIN tasks }

(* Lines 52-104; no await, so one step.                                    *)
Start ==
  /\ pc = "scheduler"
  /\ IF sched._running
     THEN /\ ev' = [name |-> "start", noop |-> TRUE]
          /\ UNCHANGED << sched, tasks >>
     ELSE \E g \in 1..Len(Generations) :
            /\ Generations[g] \notin UsedGenerations
            /\ \A h \in 1..(g - 1) : Generations[h] \in UsedGenerations
            /\ LET created == [i \in DOMAIN StartedJobs |->
                                 << Generations[g], StartedJobs[i].name >>]
               IN /\ sched' = [_running |-> TRUE, _tasks |-> created]
                  /\ tasks' = [t \in DOMAIN tasks \cup { created[i] : i \in DOMAIN created } |->
                                 IF t \in DOMAIN tasks THEN tasks[t] ELSE NewTask]
                  /\ ev' = [name |-> "start", noop |-> FALSE]
  /\ UNCHANGED << engine_vars, helper_vars, conc_vars, cache_vars, req, calls >>

(* task.cancel(): nothing on a task that is done, a request otherwise.     *)
Cancelled(f, ids) ==
  [t \in DOMAIN f |->
     IF t \in ids /\ f[t].pc # "done" THEN [f[t] EXCEPT !.cancel = TRUE] ELSE f[t]]

(* A variant of stop() that looks at its first task only.                  *)
FirstTracked == { sched._tasks[i] : i \in DOMAIN sched._tasks \cap {1} }

(* Lines 116-120: the tasks of self._tasks.                                *)
TrackedTasks == { sched._tasks[i] : i \in DOMAIN sched._tasks }

(* Lines 106-120, up to the await of the gather; the gather of no task is  *)
(* done at once and lines 122-123 follow in the same step.                 *)
StopBegin ==
  /\ pc = "scheduler"
  /\ IF ~sched._running
     THEN /\ ev' = [name |-> "stop", noop |-> TRUE]
          /\ UNCHANGED << sched, tasks, calls >>
     ELSE /\ tasks' = Cancelled(tasks, TrackedTasks)
          /\ ev' = [name |-> "stop", noop |-> FALSE]
          /\ IF sched._tasks = << >>
             THEN /\ sched' = [_running |-> FALSE, _tasks |-> << >>]
                  /\ UNCHANGED calls
             ELSE /\ sched' = [sched EXCEPT !._running = FALSE]
                  /\ calls' = calls \cup { [awaiting |-> TrackedTasks] }
  /\ UNCHANGED << engine_vars, helper_vars, conc_vars, cache_vars, req >>

(* Lines 120-123: the gather is done when every task it was given is.      *)
StopResume(c) ==
  /\ pc = "scheduler"
  /\ c \in calls
  /\ \A t \in c.awaiting : ~Alive(t)
  /\ sched' = [sched EXCEPT !._tasks = << >>]
  /\ calls' = calls \ { c }
  /\ ev' = [name |-> "stopped", awaited |-> c.awaiting]
  /\ UNCHANGED << engine_vars, helper_vars, conc_vars, cache_vars, req, tasks >>

TaskIds == { << Generations[g], j.name >> : g \in DOMAIN Generations, j \in TaskFuncs }

SchedulerIdle ==
  /\ req = NoRequest
  /\ pc = "scheduler"
  /\ options_chain = << >>
  /\ current_price = 10
  /\ today = 100
  /\ idx = 0
  /\ strike_gex = << >>
  /\ log = << >>
  /\ exc = ""
  /\ result = NoResult
  /\ strike_rows = << >>
  /\ ret = None
  /\ HelperIdle /\ ConcIdle /\ CacheIdle

(* Lines 49-50.                                                            *)
InitScheduler ==
  /\ sched = NoScheduler
  /\ tasks = << >>
  /\ calls = {}
  /\ ev = NoEvent
  /\ SchedulerIdle

(* start() and stop() called one after the other, each awaited before the  *)
(* next.                                                                   *)
NextLifecycle ==
  \/ calls = {} /\ Start
  \/ calls = {} /\ StopBegin
  \/ \E c \in calls : StopResume(c)
  \/ \E t \in TaskIds : TaskStep(t)

Scheduling ==
  /\ \A t \in TaskIds : WF_vars(TaskStep(t))
  /\ WF_vars(\E c \in calls : StopResume(c))

SpecLifecycle == InitScheduler /\ [][NextLifecycle]_vars /\ Scheduling

(* start() and stop() called from coroutines that run side by side.        *)
NextInterleaved ==
  \/ Start
  \/ StopBegin
  \/ \E c \in calls : StopResume(c)
  \/ \E t \in TaskIds : TaskStep(t)

SpecInterleaved == InitScheduler /\ [][NextInterleaved]_vars /\ Scheduling

(* One periodic task on its own, as test_scheduler.py lines 291-300 runs   *)
(* it: _running set by hand, the task created, later _running cleared and  *)
(* the task cancelled.                                                     *)
InitPeriodic ==
  /\ \E j \in TaskFuncs :
       /\ sched = [_running |-> TRUE, _tasks |-> << >>]
       /\ tasks = [t \in { << Generations[1], j.name >> } |-> NewTask]
  /\ calls = {}
  /\ ev = NoEvent
  /\ SchedulerIdle

SetNotRunning ==
  /\ pc = "scheduler"
  /\ sched._running
  /\ sched' = [sched EXCEPT !._running = FALSE]
  /\ ev' = [name |-> "set_not_running"]
  /\ UNCHANGED << engine_vars, helper_vars, conc_vars, cache_vars, req, tasks, calls >>

Cancel(t) ==
  /\ pc = "scheduler"
  /\ t \in DOMAIN tasks
  /\ Alive(t)
  /\ ~tasks[t].cancel
  /\ tasks' = Cancelled(tasks, {t})
  /\ ev' = [name |-> "cancel", task |-> t]
  /\ UNCHANGED << engine_vars, helper_vars, conc_vars, cache_vars, req, sched, calls >>

NextPeriodic ==
  \/ \E t \in TaskIds : TaskStep(t)
  \/ SetNotRunning
  \/ \E t \in TaskIds : Cancel(t)

(* The event loop runs a task whose await is over; every client call ends  *)
(* (the clients time out) and every sleep ends.                            *)
SpecPeriodic ==
  InitPeriodic /\ [][NextPeriodic]_vars /\ \A t \in TaskIds : WF_vars(TaskStep(t))

---------------------------------------------------------------------------
(* FMPClient._request, fmp_client.py lines 72-168: one call, one step per  *)
(* await.  response is what the last HTTP attempt came back with, sent     *)
(* counts the attempts, waits lists the seconds slept between them.        *)

_MAX_RETRIES == 3
_BACKOFF_BASE == 1

Endpoints == {"quote", "historical-price-eod/full", "stock-price-change"}
Symbols == {"NVDA", "MSFT"}

(* What self._client.request can come back with: a 2xx with a JSON body, a *)
(* 429, another 4xx/5xx, httpx.TimeoutException, another                   *)
(* httpx.RequestError, a 2xx whose body is not JSON.                       *)
Responses == {"ok", "429", "http_error", "timeout", "network_error", "bad_json"}

(* response.json() of a 2xx.                                               *)
Json(url, symbol) == [endpoint |-> url, symbol |-> symbol]

(* A variant that sleeps once more after the last attempt.                 *)
MayRetryAfterLast(attempt) == attempt <= _MAX_RETRIES

(* Line 116: attempt < _MAX_RETRIES.                                       *)
MayRetry(attempt) == attempt < _MAX_RETRIES

(* Line 117: _BACKOFF_BASE * (2 ** attempt).                               *)
Backoff(attempt) == _BACKOFF_BASE * (2 ^ attempt)

InitFmp ==
  /\ \E url \in Endpoints, symbol \in Symbols :
       req = [pc |-> "attempt", url |-> url, symbol |-> symbol, attempt |-> 0,
              response |-> "", sent |-> 0, waits |-> << >>, ret |-> None]
  /\ sched = NoScheduler /\ tasks = << >> /\ calls = {} /\ ev = NoEvent
  /\ pc = "fmp"
  /\ options_chain = << >>
  /\ current_price = 10
  /\ today = 100
  /\ idx = 0
  /\ strike_gex = << >>
  /\ log = << >>
  /\ exc = ""
  /\ result = NoResult
  /\ strike_rows = << >>
  /\ ret = None
  /\ HelperIdle /\ ConcIdle /\ CacheIdle

Returning(value, response) ==
  [req EXCEPT !.pc = "returned", !.ret = value, !.response = response,
              !.sent = @ + 1]

(* Lines 97-166: one pass of the for loop, from the await of the request   *)
(* to a return or to the await of the sleep.                               *)
FmpAttempt ==
  /\ pc = "fmp"
  /\ req.pc = "attempt"
  /\ \E response \in Responses :
       req' = IF response \in {"timeout", "network_error"}
              THEN Returning(None, response)
              ELSE IF response = "429"
              THEN IF MayRetry(req.attempt)
                   THEN [req EXCEPT !.pc = "sleep", !.response = response,
                                    !.sent = @ + 1,
                                    !.waits = Append(@, Backoff(req.attempt))]
                   ELSE Returning(None, response)
              ELSE IF response = "http_error"
              THEN Returning(None, response)
              ELSE IF response = "ok"
              THEN Returning(Some(Json(req.url, req.symbol)), response)
              ELSE Returning(None, response)
  /\ UNCHANGED << engine_vars, helper_vars, conc_vars, cache_vars, sched, tasks,
                  calls, ev >>

(* Lines 126-127 and 97: the sleep is over, continue with the next value   *)
(* of range(_MAX_RETRIES + 1); line 168 when there is none.                *)
FmpWake ==
  /\ pc = "fmp"
  /\ req.pc = "sleep"
  /\ req' = IF req.attempt + 1 <= _MAX_RETRIES
            THEN [req EXCEPT !.pc = "attempt", !.attempt = @ + 1]
            ELSE [req EXCEPT !.pc = "returned", !.ret = None]
  /\ UNCHANGED << engine_vars, helper_vars, conc_vars, cache_vars, sched, tasks,
                  calls, ev >>

NextFmp == FmpAttempt \/ FmpWake

(* The HTTP client answers or times out (30 s) and a sleep ends.           *)
SpecFmp == InitFmp /\ [][NextFmp]_vars /\ WF_vars(NextFmp)

---------------------------------------------------------------------------
(* Properties.                                                             *)

Returned == pc = "done"
Rows == result.strikes
RowIdx == 1..Len(result.strikes)
AcceptedIdx == { i \in 1..Len(log) : log[i].kind = "accept" }

(* gamma x open interest x 100 x S^2 of the i-th contract of the chain.    *)
Contribution(i) ==
  _bs_gamma(current_price, log[i].K, log[i].sigma[1], log[i].T)
    * log[i].oi * CONTRACT_MULTIPLIER * (current_price ^ 2)

RECURSIVE SumContribution(_)
SumContribution(I) ==
  IF I = {} THEN 0
  ELSE LET i == CHOOSE x \in I : TRUE
       IN  Contribution(i) + SumContribution(I \ {i})

AcceptedAt(K, type) ==
  { i \in AcceptedIdx : log[i].K = K /\ log[i].option_type = type }

(* C1: whatever the content of the records of the chain, calculate_gex     *)
(* never raises: no exception escapes an invocation.                       *)
C1_NoExceptionEscapes == exc = "" /\ pc # "raised"

(* The i-th contract has open interest <= 0 or time to expiry <= 0.        *)
NonPositiveOiOrExpired(i) ==
  \/ /\ options_chain[i].openInterest.k = "num"
     /\ options_chain[i].openInterest.v <= 0
  \/ /\ options_chain[i].expirationDate.k = "date"
     /\ options_chain[i].expirationDate.v - today <= 0
  \/ options_chain[i].expirationDate.k # "date"

KeptAt(K, type) == { i \in AcceptedAt(K, type) : ~NonPositiveOiOrExpired(i) }

(* C2: a contract with open interest <= 0 or time to expiry <= 0 is        *)
(* excluded from every StrikeRow: each row is the sum over the other       *)
(* contracts only, and each row has such another contract at its strike.   *)
C2_NonPositiveOiOrExpiredExcluded ==
  Returned =>
    \A j \in RowIdx :
      /\ Rows[j].call_gex = SumContribution(KeptAt(Rows[j].strike, "call"))
      /\ Rows[j].put_gex = -SumContribution(KeptAt(Rows[j].strike, "put"))
      /\ KeptAt(Rows[j].strike, "call") \cup KeptAt(Rows[j].strike, "put") # {}

(* C3: every StrikeRow has call_gex >= 0, put_gex <= 0 and net_gex =       *)
(* call_gex + put_gex; when every accepted contract is a put, every row    *)
(* has call_gex = 0 and net_gex < 0.                                       *)
C3_RowSigns ==
  Returned =>
    /\ \A j \in RowIdx :
         /\ Rows[j].call_gex >= 0
         /\ Rows[j].put_gex <= 0
         /\ Rows[j].net_gex = Rows[j].call_gex + Rows[j].put_gex
    /\ (\A i \in AcceptedIdx : log[i].option_type = "put") =>
         \A j \in RowIdx : Rows[j].call_gex = 0 /\ Rows[j].net_gex < 0

(* The rows with positive net GEX that come after a row with negative net  *)
(* GEX.                                                                    *)
FlipCandidates(rows) ==
  { j \in 1..Len(rows) :
      rows[j].net_gex > 0 /\ \E m \in 1..(j - 1) : rows[m].net_gex < 0 }

(* C4: on an ascending list of rows _find_gamma_flip returns the strike of *)
(* the first row with net_gex > 0 that has a row with net_gex < 0 before   *)
(* it, and None when there is no such row.                                 *)
C4_GammaFlipIsFirstPositiveAfterNegative ==
  pc = "flip_returned" =>
    IF FlipCandidates(strike_rows) = {}
    THEN ret = None
    ELSE \E j \in FlipCandidates(strike_rows) :
           /\ \A m \in FlipCandidates(strike_rows) : j <= m
           /\ ret = Some(strike_rows[j].strike)

(* A negative row, then a zero row, then the flip.                         *)
C4_Witness ==
  /\ pc = "flip_returned"
  /\ Len(strike_rows) = 4
  /\ strike_rows[1].net_gex > 0
  /\ strike_rows[2].net_gex < 0
  /\ strike_rows[3].net_gex = 0
  /\ strike_rows[4].net_gex > 0
  /\ ret = Some(strike_rows[4].strike)

(* C5: one StrikeRow per strike with an accepted contract; its call_gex is *)
(* the sum of gamma x OI x 100 x S^2 over the accepted calls at the strike *)
(* whatever their expiration, its put_gex the negated sum over the puts.   *)
C5_OneRowPerStrikeSummingAllExpirations ==
  Returned =>
    /\ \A i \in AcceptedIdx :
         Cardinality({ j \in RowIdx : Rows[j].strike = log[i].K }) = 1
    /\ \A j \in RowIdx :
         /\ \E i \in AcceptedIdx : log[i].K = Rows[j].strike
         /\ Rows[j].call_gex = SumContribution(AcceptedAt(Rows[j].strike, "call"))
         /\ Rows[j].put_gex = -SumContribution(AcceptedAt(Rows[j].strike, "put"))

(* Two accepted calls at one strike with different expirations, one row.   *)
C5_Witness ==
  /\ Returned
  /\ Len(Rows) = 1
  /\ \E i, m \in AcceptedIdx :
       /\ i < m
       /\ log[i].K = log[m].K
       /\ log[i].option_type = "call" /\ log[m].option_type = "call"
       /\ log[i].T # log[m].T
       /\ Rows[1].call_gex = Contribution(i) + Contribution(m)
       /\ Contribution(i) > 0 /\ Contribution(m) > 0

RECURSIVE SumNet(_)
SumNet(J) ==
  IF J = {} THEN 0
  ELSE LET j == CHOOSE x \in J : TRUE
       IN  result.strikes[j].net_gex + SumNet(J \ {j})

(* C6: total_gex is the sum of net_gex over exactly the rows of strikes,   *)
(* and 0 when there is none.                                               *)
C6_TotalIsSumOfNet ==
  Returned => result.total_gex = SumNet(RowIdx)

C6_Witness ==
  /\ Returned
  /\ Len(Rows) = 3
  /\ \E j, m \in RowIdx : Rows[j].net_gex < 0 /\ Rows[m].net_gex > 0
  /\ result.total_gex # 0

(* C7: strikes is strictly ascending by strike, whatever the order of the  *)
(* contracts in the chain.                                                 *)
C7_StrikesStrictlyAscending ==
  Returned => \A j \in RowIdx : \A m \in RowIdx :
                j < m => Rows[j].strike < Rows[m].strike

(* The chain met the strikes in descending order.                          *)
C7_Witness ==
  /\ Returned
  /\ Len(Rows) = 3
  /\ strike_gex[1].strike > strike_gex[2].strike
  /\ strike_gex[2].strike > strike_gex[3].strike

PositiveRows(rows) == { j \in 1..Len(rows) : rows[j].net_gex > 0 }
NegativeRows(rows) == { j \in 1..Len(rows) : rows[j].net_gex < 0 }

(* C8: max_positive_gex is the strike of a row of greatest net_gex among   *)
(* the rows with net_gex > 0, max_negative_gex the strike of a row of      *)
(* smallest net_gex among the rows with net_gex < 0, each None when there  *)
(* is no such row, and key_levels.gamma_flip is the result's gamma_flip.   *)
C8_KeyLevels ==
  pc = "post_returned" =>
    LET kl == result.key_levels IN
    /\ IF PositiveRows(Rows) = {}
       THEN kl.max_positive_gex = None
       ELSE \E j \in PositiveRows(Rows) :
              /\ \A m \in PositiveRows(Rows) : Rows[m].net_gex <= Rows[j].net_gex
              /\ kl.max_positive_gex = Some(Rows[j].strike)
    /\ IF NegativeRows(Rows) = {}
       THEN kl.max_negative_gex = None
       ELSE \E j \in NegativeRows(Rows) :
              /\ \A m \in NegativeRows(Rows) : Rows[m].net_gex >= Rows[j].net_gex
              /\ kl.max_negative_gex = Some(Rows[j].strike)
    /\ kl.gamma_flip = result.gamma_flip
    /\ Rows = strike_rows

(* Two negative and two positive rows of different size, and a flip.       *)
C8_Witness ==
  /\ pc = "post_returned"
  /\ Len(Rows) = 4
  /\ Rows[1].net_gex = -1 /\ Rows[2].net_gex = -2
  /\ Rows[3].net_gex = 2 /\ Rows[4].net_gex = 1
  /\ result.key_levels.max_positive_gex = Some(Rows[3].strike)
  /\ result.key_levels.max_negative_gex = Some(Rows[2].strike)
  /\ result.key_levels.gamma_flip = Some(Rows[3].strike)

(* C9: with an empty chain or a spot price <= 0, calculate_gex raises      *)
(* nothing, processes no contract and returns strikes = [], total_gex = 0, *)
(* no gamma flip and no key level.                                         *)
C9_DegenerateInputGivesEmptyResult ==
  (Len(options_chain) = 0 \/ current_price <= 0) =>
    /\ exc = ""
    /\ pc \in {"call", "done"}
    /\ log = << >>
    /\ strike_gex = << >>
    /\ Returned =>
         /\ result.strikes = << >>
         /\ result.total_gex = 0
         /\ result.gamma_flip = None
         /\ result.key_levels.max_positive_gex = None
         /\ result.key_levels.max_negative_gex = None
         /\ result.key_levels.gamma_flip = None
         /\ result.current_price = current_price

(* A non-positive spot with a chain whose first record would raise.        *)
C9_Witness ==
  /\ Returned
  /\ current_price <= 0
  /\ Len(options_chain) = 3
  /\ options_chain[1].strike.k = "str"
  /\ result.strikes = << >>

(* The market price of section 4.2: the mid of bid and ask when both are   *)
(* numbers > 0, else the last price when a number > 0, else none.          *)
ExpectedMarketPrice(c) ==
  IF c.bid.k = "num" /\ c.bid.v > 0 /\ c.ask.k = "num" /\ c.ask.v > 0
  THEN Some((c.bid.v + c.ask.v) \div 2)
  ELSE IF c.lastPrice.k = "num" /\ c.lastPrice.v > 0
  THEN Some(c.lastPrice.v)
  ELSE None

(* C10: for a contract that passed validation, a supplied volatility > 0   *)
(* is used and the solver is not called; otherwise the solver is called    *)
(* once, with the mid of bid and ask or else the last price, and the       *)
(* contract is skipped when there is no such price or no solver result.    *)
C10_VolatilityResolutionOrder ==
  \A i \in 1..Len(log) :
    log[i].T > 0 =>
      LET c == options_chain[i]
          o == log[i]
      IN  IF c.impliedVolatility.k = "num" /\ c.impliedVolatility.v > 0
          THEN o.solver_calls = 0 /\ o.sigma = Some(c.impliedVolatility.v)
          ELSE IF ExpectedMarketPrice(c) = None
          THEN o.solver_calls = 0 /\ o.kind = "skip" /\ o.sigma = None
          ELSE /\ o.solver_calls = 1
               /\ o.solver_price = ExpectedMarketPrice(c)
               /\ o.sigma = None => o.kind = "skip"
               /\ o.sigma # None =>
                    Abs(_bs_price(current_price, o.K, o.sigma[1], o.T, o.option_type)
                          - ExpectedMarketPrice(c)[1]) < IV_BISECT_TOLERANCE

(* One contract priced from bid and ask, one from the last price, one with *)
(* its own volatility, all three accepted.                                 *)
C10_Witness ==
  /\ Returned
  /\ Len(log) = 3
  /\ \E i, j, m \in AcceptedIdx :
       /\ log[i].solver_calls = 1
       /\ options_chain[i].bid.k = "num"
       /\ log[j].solver_calls = 1
       /\ options_chain[j].bid.k = "str"
       /\ log[j].solver_price = Some(options_chain[j].lastPrice.v)
       /\ log[m].solver_calls = 0
       /\ log[m].sigma = Some(options_chain[m].impliedVolatility.v)


---------------------------------------------------------------------------
(* Properties of the solver called on its own.                             *)

SolverReturned == pc = "solver_returned"

(* A precondition of section 4.3 fails for the arguments a: the price is   *)
(* not positive, below the discounted intrinsic value less the tolerance,  *)
(* or outside the prices of the bracket by more than the tolerance.        *)
PreconditionFails(a) ==
  \/ a.market_price <= 0
  \/ a.market_price
       < Intrinsic(a.S, a.K, a.T, a.option_type) - IV_BISECT_TOLERANCE
  \/ /\ a.K > 0
     /\ \/ a.market_price
             < _bs_price(a.S, a.K, IV_BISECT_LOW, a.T, a.option_type)
                 - IV_BISECT_TOLERANCE
        \/ a.market_price
             > _bs_price(a.S, a.K, IV_BISECT_HIGH, a.T, a.option_type)
                 + IV_BISECT_TOLERANCE

(* C12: when the market price is <= 0, below the discounted intrinsic      *)
(* value minus the tolerance, below price(0.01) minus the tolerance or     *)
(* above price(5.0) plus the tolerance, _implied_volatility_bisection      *)
(* returns None, raises nothing and executes no bisection iteration.       *)
C12_PreconditionFailureReturnsNone ==
  (pc # "solver" /\ PreconditionFails(args)) =>
    /\ pc = "solver_returned"
    /\ ret = None
    /\ exc = ""
    /\ bisect = NoLoop

(* A price above the price of IV_BISECT_HIGH by more than the tolerance.   *)
C12_Witness ==
  /\ SolverReturned
  /\ args.K > 0
  /\ args.market_price
       > _bs_price(args.S, args.K, IV_BISECT_HIGH, args.T, args.option_type)
           + IV_BISECT_TOLERANCE
  /\ ret = None
  /\ bisect.iterations = 0

(* C14 as stated: a returned volatility is the midpoint of the current     *)
(* search interval, lies strictly between 0.01 and 5.0 and has a price     *)
(* within the tolerance of the market price.                               *)
C14_ReturnedSigmaStrictlyInsideBracket ==
  (SolverReturned /\ ret # None) =>
    /\ ret[1] = Mid(bisect.low, bisect.high)
    /\ IV_BISECT_LOW < ret[1] /\ ret[1] < IV_BISECT_HIGH
    /\ Abs(_bs_price(args.S, args.K, ret[1], args.T, args.option_type)
             - args.market_price) < IV_BISECT_TOLERANCE

(* C14, amended: a returned volatility is the midpoint of the current      *)
(* search interval, lies above 0.01 and at or below 5.0 and has a price    *)
(* within the tolerance of the market price.                               *)
C14_ReturnedSigmaMeetsTolerance ==
  (SolverReturned /\ ret # None) =>
    /\ ret[1] = Mid(bisect.low, bisect.high)
    /\ IV_BISECT_LOW < ret[1] /\ ret[1] <= IV_BISECT_HIGH
    /\ Abs(_bs_price(args.S, args.K, ret[1], args.T, args.option_type)
             - args.market_price) < IV_BISECT_TOLERANCE

(* The solver returned IV_BISECT_HIGH after narrowing the interval.        *)
C14_Witness ==
  /\ SolverReturned
  /\ ret = Some(IV_BISECT_HIGH)
  /\ bisect.low > IV_BISECT_LOW
  /\ bisect.iterations > 1

(* C15: the solver called on the price of a volatility sigma_true of the   *)
(* bracket returns a volatility within 1e-3 of sigma_true.                 *)
C15_RoundTripWithinOneThousandth ==
  (SolverReturned /\ args.sigma # 0) =>
    /\ ret # None
    /\ Abs(ret[1] - args.sigma) < 10 ^ 4

(* C13: a call of _implied_volatility_bisection evaluates the price at no  *)
(* more than 100 midpoints and terminates, with None when none of the 100  *)
(* midpoints met the tolerance; every invocation of calculate_gex on a     *)
(* finite chain terminates.                                                *)
C13_SolverAndEngineTerminate ==
  /\ [](bisect.iterations <= IV_BISECT_MAX_ITER)
  /\ []((SolverReturned /\ bisect.iterations = IV_BISECT_MAX_ITER /\ ~bisect.done)
          => ret = None)
  /\ <>(pc \in {"solver_returned", "solver_raised", "done", "raised"})

(* The solver returned None after 100 midpoints.                           *)
C13_Witness ==
  /\ SolverReturned
  /\ bisect.iterations = IV_BISECT_MAX_ITER
  /\ ~bisect.done
  /\ ret = None

---------------------------------------------------------------------------
(* Properties of the fields of a contract, checked on SpecFields.          *)

(* 'call' / 'put' in any letter case, folded to lower case; any other      *)
(* class unchanged.                                                        *)
CaseFold(type) ==
  IF type \in {"call", "CALL", "Call"} THEN "call"
  ELSE IF type \in {"put", "PUT", "Put"} THEN "put"
  ELSE type

LowerCaseForm(c) == [c EXCEPT !.type = CaseFold(c.type)]

(* Strike absent, open interest absent, or a class that is neither 'call'  *)
(* nor 'put' in any letter case.                                           *)
Unrecognised(c) ==
  \/ c.strike.k = "none"
  \/ c.openInterest.k = "none"
  \/ CaseFold(c.type) \notin {"call", "put"}

RecognisedAt(K, type) ==
  { i \in AcceptedAt(K, type) : ~Unrecognised(options_chain[i]) }

(* C11: a contract with strike absent, open interest absent or a class     *)
(* other than 'call' / 'put' (case-insensitive) is skipped without error   *)
(* and no row holds a contribution of it; a contract with 'call' or 'put'  *)
(* in any letter case is processed exactly as its lower-case form.         *)
C11_UnrecognisedSkippedAndClassCaseInsensitive ==
  /\ \A i \in 1..Len(log) :
       /\ Unrecognised(options_chain[i]) => log[i].kind = "skip"
       /\ log[i] = ProcessContract(LowerCaseForm(options_chain[i]), current_price, today)
  /\ Returned =>
       \A j \in RowIdx :
         /\ Rows[j].call_gex = SumContribution(RecognisedAt(Rows[j].strike, "call"))
         /\ Rows[j].put_gex = -SumContribution(RecognisedAt(Rows[j].strike, "put"))
         /\ RecognisedAt(Rows[j].strike, "call") \cup RecognisedAt(Rows[j].strike, "put") # {}

(* A 'Put' or 'PUT' contract is aggregated as a put next to a contract     *)
(* skipped for its missing open interest.                                  *)
C11_Witness ==
  /\ Returned
  /\ \E i, m \in 1..Len(log) :
       /\ options_chain[i].type \in {"Put", "PUT"}
       /\ log[i].kind = "accept" /\ log[i].option_type = "put"
       /\ options_chain[m].openInterest.k = "none"
       /\ log[m].kind = "skip"
  /\ Len(Rows) = 1 /\ Rows[1].put_gex < 0 /\ Rows[1].call_gex = 0

(* The i-th contract gets as far as line 367: strike and open interest     *)
(* are numbers, the class is recognised, the open interest is not 0.       *)
ReachesExpiry(i) ==
  /\ options_chain[i].strike.k = "num"
  /\ options_chain[i].openInterest.k = "num"
  /\ options_chain[i].openInterest.v # 0
  /\ CaseFold(options_chain[i].type) \in {"call", "put"}

(* C16: the time to expiry is the whole days from the current date to the  *)
(* expiration date (over 365) for an ISO date and exactly 0, with no       *)
(* exception, for anything else; calculate_gex skips the latter as expired.*)
C16_TimeToExpiry ==
  \A i \in 1..Len(log) :
    ReachesExpiry(i) =>
      LET e == options_chain[i].expirationDate IN
      /\ e.k = "date" => log[i].T = e.v - today
      /\ e.k # "date" =>
           log[i].T = 0 /\ log[i].kind = "skip" /\ log[i].why = "expired"

(* A contract with an unparseable, a missing or a numeric expirationDate   *)
(* was skipped and a contract 60 days from expiry was aggregated.          *)
C16_Witness ==
  /\ Returned
  /\ \E i, m \in 1..Len(log) :
       /\ ReachesExpiry(i)
       /\ options_chain[i].expirationDate.k \in {"str", "none", "num"}
       /\ log[i].kind = "skip"
       /\ log[m].kind = "accept" /\ log[m].T = 60
  /\ Len(Rows) = 1

(* sigma * sqrt(T) < 1e-8 in the units of the model: with sigma a multiple *)
(* of 1e-7 and T a number of days, sigma is 1e-7 and T at most 3 days.     *)
UnderMinSigmaSqrtT(sigma, T) == sigma <= 1 /\ T <= 3

GuardedAt(i) ==
  /\ log[i].sigma # None
  /\ log[i].T > 0
  /\ UnderMinSigmaSqrtT(log[i].sigma[1], log[i].T)

UnguardedAt(K, type) == { i \in AcceptedAt(K, type) : ~GuardedAt(i) }

(* C17: _bs_gamma returns a value >= 0 (for a positive strike it returns), *)
(* and returns 0 without reaching the division when sigma * sqrt(T) <      *)
(* 1e-8, whatever the strike; calculate_gex skips a contract whose         *)
(* resolved sigma * sqrt(T) < 1e-8, and the rows are the sums over the     *)
(* other contracts.                                                        *)
C17_GammaNonNegativeAndGuarded ==
  /\ pc = "gamma_returned" => ret[1] >= 0
  /\ (pc \in {"gamma_returned", "gamma_raised"} /\ args.K > 0) => pc = "gamma_returned"
  /\ (pc \in {"gamma_returned", "gamma_raised"} /\ UnderMinSigmaSqrtT(args.sigma, args.T)) =>
       pc = "gamma_returned" /\ ret = Some(0) /\ exc = ""
  /\ \A i \in 1..Len(log) : GuardedAt(i) => log[i].kind = "skip"
  /\ Returned =>
       \A j \in RowIdx :
         /\ Rows[j].call_gex = SumContribution(UnguardedAt(Rows[j].strike, "call"))
         /\ Rows[j].put_gex = -SumContribution(UnguardedAt(Rows[j].strike, "put"))
         /\ UnguardedAt(Rows[j].strike, "call") \cup UnguardedAt(Rows[j].strike, "put") # {}

(* A contract with volatility 1e-7 and three days to run was skipped and   *)
(* the chain returned one row that another contract made.                  *)
C17_Witness ==
  /\ Returned
  /\ Len(log) = 2
  /\ GuardedAt(1) /\ log[1].T = 3 /\ log[1].kind = "skip"
  /\ log[2].kind = "accept" /\ log[2].gex_magnitude > 0
  /\ Len(Rows) = 1 /\ Rows[1].call_gex = log[2].gex_magnitude

---------------------------------------------------------------------------
(* Properties of concurrent invocations, checked on SpecConcurrent.        *)

(* The dict of an invocation that ran alone on chain, reading the date     *)
(* dates[i] for the i-th contract.                                         *)
RECURSIVE FoldChain(_, _, _, _, _)
FoldChain(chain, S, dates, i, sg) ==
  IF i > Len(chain) THEN sg
  ELSE LET o == ProcessContract(chain[i], S, dates[i])
       IN  FoldChain(chain, S, dates, i + 1,
                     IF o.kind = "accept"
                     THEN Accumulate(sg, o.K, o.option_type, o.gex_magnitude)
                     ELSE sg)

ResultAlone(chain, S, dates) ==
  IF DegenerateInput(chain, S) THEN EmptyResult(S)
  ELSE PostProcess(BuildStrikeRows(FoldChain(chain, S, dates, 1, << >>)), S)

Running(p) == inv[p].pc \in {"call", "loop"}
Finished(p) == inv[p].pc = "done"

(* C18: however the steps of the invocations interleave, each returns the  *)
(* result it would have returned alone on its chain, spot price and        *)
(* readings of the date; an invocation that has not returned can always    *)
(* take its next step; its chain and the settings stay as they were.       *)
C18_ConcurrentInvocationsIndependent ==
  /\ settings = Settings
  /\ \A p \in DOMAIN inv :
       /\ inv[p].options_chain = inv[p].called_with
       /\ Running(p) => ENABLED ConcStep(p)
       /\ Finished(p) =>
            inv[p].result = ResultAlone(inv[p].called_with, inv[p].current_price,
                                        inv[p].dates)

(* Both invocations returned rows after each had taken a step between two  *)
(* steps of the other (the interleaving is visible in the calendar: the    *)
(* date changed between the two contracts of each).                        *)
C18_Witness ==
  /\ DOMAIN inv = InvocationIds
  /\ \A p \in InvocationIds :
       /\ Finished(p)
       /\ Len(inv[p].dates) = 2
       /\ inv[p].dates[1] # inv[p].dates[2]
       /\ Len(inv[p].result.strikes) = 1
  /\ inv["a"].result # inv["b"].result

(* C19: two invocations with the same chain, spot price, risk-free rate    *)
(* and value of the clock at the call return the same strikes, total_gex,  *)
(* gamma_flip and key levels.                                              *)
C19_SameInputsAndClockSameResult ==
  \A p, q \in DOMAIN inv :
    ( /\ Finished(p) /\ Finished(q)
      /\ inv[p].called_with = inv[q].called_with
      /\ inv[p].current_price = inv[q].current_price
      /\ inv[p].r = inv[q].r
      /\ inv[p].called_at = inv[q].called_at ) =>
      inv[p].result = inv[q].result

---------------------------------------------------------------------------
(* Properties of TTLCache, checked on SpecCache.                           *)

(* The latest set of key was followed by no delete of key and no clear,    *)
(* and the time is strictly before that set's time plus its ttl.           *)
LatestSetLive(key) ==
  /\ key \in DOMAIN hist
  /\ ~hist[key].removed
  /\ clock < hist[key].time + hist[key].ttl

(* C20: get(key) returns the value of the latest set(key, value, ttl)      *)
(* exactly when no delete(key) or clear() followed that set and the time   *)
(* is before the set's time plus ttl, and None otherwise; a delete leaves  *)
(* every other entry as it was, and the whole store when key is absent.    *)
C20_CacheGetAndDelete ==
  /\ op.name = "get" =>
       /\ LatestSetLive(op.key) => op.ret = Some(hist[op.key].value)
       /\ ~LatestSetLive(op.key) => op.ret = None
  /\ op.name = "delete" =>
       /\ store = Without(op.before, op.key)
       /\ op.key \notin DOMAIN op.before => store = op.before

(* A get returned None for an entry past its ttl while the other key was   *)
(* still served, after an overwrite.                                       *)
C20_Witness ==
  /\ op.name = "get"
  /\ op.ret = None
  /\ op.key \in DOMAIN hist /\ ~hist[op.key].removed
  /\ clock = hist[op.key].time + hist[op.key].ttl
  /\ \E other \in DOMAIN store : other # op.key /\ LatestSetLive(other)

(* The keys set and not yet removed by a delete, a clear or a get after    *)
(* the ttl had elapsed.                                                    *)
KeysNotRemoved == { k \in DOMAIN hist : ~hist[k].removed /\ ~hist[k].collected }

Elapsed(key) == clock >= hist[key].time + hist[key].ttl

(* C21: expiration is lazy.  size() counts the keys set and not removed by *)
(* delete, clear or an expired get, elapsed entries included; a get on an  *)
(* elapsed entry removes that entry only and returns None; a get on a      *)
(* fresh or absent key and the passage of time leave the store as it was.  *)
C21_LazyExpiration ==
  /\ size(store) = Cardinality(KeysNotRemoved)
  /\ DOMAIN store = KeysNotRemoved
  /\ op.name = "get" =>
       IF op.key \in DOMAIN op.before /\ clock >= op.before[op.key].expiry
       THEN /\ store = Without(op.before, op.key)
            /\ size(store) = size(op.before) - 1
            /\ op.ret = None
       ELSE store = op.before
  /\ op.name = "advance" => store = op.before

(* A get has just removed an elapsed entry while another elapsed entry is  *)
(* still in the store and counted.                                         *)
C21_Witness ==
  /\ op.name = "get"
  /\ op.key \in DOMAIN op.before
  /\ op.key \notin DOMAIN store
  /\ size(op.before) = 2 /\ size(store) = 1
  /\ \E k \in DOMAIN store : Elapsed(k)

---------------------------------------------------------------------------
(* The loop of the solver, checked on SpecSolver.                          *)

AtIterationStart == pc = "bisect" /\ bisect.iterations < IV_BISECT_MAX_ITER

PriceAt(sigma) == _bs_price(args.S, args.K, sigma, args.T, args.option_type)

(* (5.0 - 0.01) / 2^k, rounded down to the unit of the model.              *)
IdealWidth(k) == IF k > 30 THEN 0 ELSE (IV_BISECT_HIGH - IV_BISECT_LOW) \div (2 ^ k)

Bracketed ==
  /\ PriceAt(bisect.low) - IV_BISECT_TOLERANCE <= args.market_price
  /\ args.market_price <= PriceAt(bisect.high) + IV_BISECT_TOLERANCE

(* A non-converging iteration moved exactly one end to the midpoint: low   *)
(* when the price at the midpoint is below the market price, high          *)
(* otherwise.                                                              *)
OneEndToMidpoint ==
  (pc = "bisect" /\ pc' = "bisect" /\ bisect'.iterations = bisect.iterations + 1) =>
    LET mid == Mid(bisect.low, bisect.high) IN
    IF PriceAt(mid) < args.market_price
    THEN bisect'.low = mid /\ bisect'.high = bisect.high
    ELSE bisect'.high = mid /\ bisect'.low = bisect.low

(* C23 as stated: at the start of every iteration 0.01 <= low < high <=    *)
(* 5.0, the width is (5.0 - 0.01) / 2^k after k non-converging iterations  *)
(* (here: to within one representable step), and the market price is       *)
(* bracketed.                                                              *)
C23_LoopInvariantStrict ==
  AtIterationStart =>
    /\ IV_BISECT_LOW <= bisect.low
    /\ bisect.low < bisect.high
    /\ bisect.high <= IV_BISECT_HIGH
    /\ Abs((bisect.high - bisect.low) - IdealWidth(bisect.iterations)) <= SigmaUlp
    /\ Bracketed

(* C23, amended: at the start of every iteration 0.01 <= low <= high <=    *)
(* 5.0, the width is (5.0 - 0.01) / 2^k to within one representable step,  *)
(* the market price is bracketed, and a non-converging iteration assigns   *)
(* the midpoint to exactly one end, chosen by the sign of the error.       *)
C23_LoopInvariant ==
  /\ [](AtIterationStart =>
          /\ IV_BISECT_LOW <= bisect.low
          /\ bisect.low <= bisect.high
          /\ bisect.high <= IV_BISECT_HIGH
          /\ Abs((bisect.high - bisect.low) - IdealWidth(bisect.iterations)) <= SigmaUlp
          /\ Bracketed)
  /\ [][OneEndToMidpoint]_vars

(* An iteration starts on an interval that has shrunk to one point, the    *)
(* upper end of the bracket.                                               *)
C23_Witness ==
  /\ AtIterationStart
  /\ bisect.iterations > 1
  /\ bisect.low = bisect.high
  /\ bisect.high = IV_BISECT_HIGH
  /\ Bracketed

---------------------------------------------------------------------------
(* Ties of the key levels, checked on SpecRows.                            *)

GreatestPositive(rows) ==
  { j \in PositiveRows(rows) :
      \A m \in PositiveRows(rows) : rows[m].net_gex <= rows[j].net_gex }

MostNegative(rows) ==
  { j \in NegativeRows(rows) :
      \A m \in NegativeRows(rows) : rows[m].net_gex >= rows[j].net_gex }

LowestStrike(rows, J) ==
  CHOOSE s \in { rows[j].strike : j \in J } : \A j \in J : s <= rows[j].strike

ZeroStrikes(rows) == { rows[j].strike : j \in { m \in 1..Len(rows) : rows[m].net_gex = 0 } }

(* C29: of several rows with the greatest positive net GEX the lowest      *)
(* strike is max_positive_gex, of several rows with the most negative net  *)
(* GEX the lowest strike is max_negative_gex; a row with net GEX 0 is      *)
(* neither.                                                                *)
C29_KeyLevelTiesTakeLowestStrike ==
  pc = "post_returned" =>
    LET kl == result.key_levels IN
    /\ GreatestPositive(strike_rows) # {} =>
         kl.max_positive_gex = Some(LowestStrike(strike_rows, GreatestPositive(strike_rows)))
    /\ MostNegative(strike_rows) # {} =>
         kl.max_negative_gex = Some(LowestStrike(strike_rows, MostNegative(strike_rows)))
    /\ \A s \in ZeroStrikes(strike_rows) :
         kl.max_positive_gex # Some(s) /\ kl.max_negative_gex # Some(s)

(* Two rows tie for the greatest positive and two for the most negative    *)
(* net GEX; the lower strike of each pair is the key level.                *)
C29_Witness ==
  /\ pc = "post_returned"
  /\ Len(strike_rows) = 4
  /\ strike_rows[1].net_gex = 2 /\ strike_rows[3].net_gex = 2
  /\ strike_rows[2].net_gex = -2 /\ strike_rows[4].net_gex = -2
  /\ result.key_levels.max_positive_gex = Some(strike_rows[1].strike)
  /\ result.key_levels.max_negative_gex = Some(strike_rows[2].strike)

---------------------------------------------------------------------------
(* The order of the chain, checked on SpecOrder.                           *)

Reorderings(n) ==
  { f \in [1..n -> 1..n] : \A i, m \in 1..n : f[i] = f[m] => i = m }

Permuted(chain, f) == [i \in 1..Len(chain) |-> chain[f[i]]]

SameDate(chain, d) == [i \in 1..Len(chain) |-> d]

---------------------------------------------------------------------------
(* The date within one invocation, checked on SpecConcurrent.              *)

(* C27: within one invocation two contracts with the same expiration date  *)
(* are measured against the same current date: both get the same time to   *)
(* expiry, so both are filtered as expired or neither is.                  *)
C27_OneDatePerInvocation ==
  \A p \in DOMAIN inv :
    \A i, m \in 1..Len(inv[p].dates) :
      inv[p].called_with[i].expirationDate = inv[p].called_with[m].expirationDate =>
        _time_to_expiry_years(inv[p].called_with[i].expirationDate, inv[p].dates[i])
          = _time_to_expiry_years(inv[p].called_with[m].expirationDate, inv[p].dates[m])

---------------------------------------------------------------------------
(* FMPClient._request, checked on SpecFmp.                                 *)

IsPrefix(s, t) == Len(s) <= Len(t) /\ \A i \in 1..Len(s) : s[i] = t[i]

FmpReturned == req.pc = "returned"

---------------------------------------------------------------------------
(* DataRefreshScheduler._run_periodic_task and the refresh functions,      *)
(* checked on SpecPeriodic.                                                *)

PeriodicTasks == { << Generations[1], j.name >> : j \in TaskFuncs }

Invoked(t) ==
  /\ t \in DOMAIN tasks
  /\ tasks'[t].lap # tasks[t].lap

LoopEnds(t) ==
  /\ t \in DOMAIN tasks
  /\ Alive(t)
  /\ tasks'[t].pc = "done"

StaysRunning(t) ==
  /\ t \in DOMAIN tasks
  /\ sched._running
  /\ ~tasks[t].cancel

(* C24: an exception of the refresh function is logged and the loop goes   *)
(* on to its sleep; the loop ends only when _running is False or the task  *)
(* is cancelled; while neither happens the refresh function is called      *)
(* again and again.                                                        *)
C24_PeriodicTaskSurvivesExceptions ==
  /\ [](ev.name = "error" => tasks[ev.task].pc = "sleep")
  /\ [][\A t \in PeriodicTasks :
          LoopEnds(t) => ~sched._running \/ tasks[t].cancel]_vars
  /\ \A t \in PeriodicTasks : []StaysRunning(t) => []<><<Invoked(t)>>_vars

(* The refresh function has raised for the second time and the task is     *)
(* asleep, neither stopped nor cancelled.                                  *)
C24_Witness ==
  /\ ev.name = "error"
  /\ tasks[ev.task].lap = 0
  /\ tasks[ev.task].pc = "sleep"
  /\ StaysRunning(ev.task)

FetchFailed ==
  /\ ev.name = "fetch"
  /\ ev.fetched.raised \/ ev.fetched.data.none \/ ev.fetched.data.items = << >>

(* C25: after a client call that raised or returned None or nothing the    *)
(* cache is as it was, and the refresh function goes on: to its next       *)
(* client call when it has one, back to the loop otherwise.                *)
C25_FailedFetchWritesNothing ==
  FetchFailed =>
    /\ store = ev.before
    /\ IF ev.k < Len(JobOf(ev.task[2]).keys)
       THEN tasks[ev.task].pc = "refresh" /\ tasks[ev.task].k = ev.k + 1
       ELSE tasks[ev.task].pc = "sleep"

(* The income statement of the last ticker came back empty after the cash  *)
(* flow of the first had raised and others had been stored in between.     *)
C25_Witness ==
  /\ FetchFailed
  /\ ev.key = "hyperscaler:income:META"
  /\ "hyperscaler:cashflow:MSFT" \notin DOMAIN store
  /\ "hyperscaler:income:MSFT" \in DOMAIN store
  /\ "hyperscaler:cashflow:META" \in DOMAIN store

---------------------------------------------------------------------------
(* DataRefreshScheduler.start and stop.                                    *)

StartCalled == ev'.name = "start" /\ ev' # ev

StopCalled == ev'.name = "stop" /\ ev' # ev

Created == DOMAIN tasks' \ DOMAIN tasks

LoopsAlive == { t \in DOMAIN tasks : Alive(t) }

LatestStarted ==
  { t \in DOMAIN tasks : t[1] = Generations[Cardinality(UsedGenerations)] }

RefreshRuns ==
  \/ store' # store
  \/ ev' # ev /\ ev'.name \in {"invoke", "fetch", "error"}

(* C22, checked on SpecLifecycle: start() on a stopped scheduler sets      *)
(* _running and creates one task per job; start() on a running scheduler   *)
(* and stop() on a stopped one change nothing; when stop() on a running    *)
(* scheduler returns, _running is False and every task of the start()      *)
(* before it is done, and nothing refreshes until the next start().        *)
C22_StartStopLifecycle ==
  /\ [][(StartCalled /\ ~sched._running) =>
          /\ sched'._running
          /\ Cardinality(Created) = Len(StartedJobs)
          /\ Created = { sched'._tasks[i] : i \in DOMAIN sched'._tasks }
          /\ \A t \in Created : tasks'[t] = NewTask
          /\ \A t \in DOMAIN tasks : tasks'[t] = tasks[t]]_vars
  /\ [][(StartCalled /\ sched._running) => UNCHANGED << sched, tasks, calls, store >>]_vars
  /\ [][(StopCalled /\ ~sched._running) => UNCHANGED << sched, tasks, calls, store >>]_vars
  /\ [](ev.name = "stopped" =>
          /\ ~sched._running
          /\ ev.awaited = LatestStarted
          /\ LoopsAlive = {})
  /\ []((~sched._running /\ calls = {}) => LoopsAlive = {})
  /\ [][(~sched._running /\ calls = {}) => ~RefreshRuns]_vars

(* The second stop() has returned after both prices had been refreshed.    *)
C22_Witness ==
  /\ ev.name = "stopped"
  /\ \A t \in ev.awaited : t[1] = Generations[2]
  /\ "price:NVDA" \in DOMAIN store
  /\ "price:correlated" \in DOMAIN store

LoopsOf(name) == { t \in LoopsAlive : t[2] = name }

(* C30, checked on SpecInterleaved: at most one loop per job is alive,     *)
(* every loop alive is in _tasks, and no loop is alive when _running is    *)
(* False and no stop() is waiting.                                         *)
C30_NoLoopOutlivesStop ==
  /\ \A i \in DOMAIN StartedJobs : Cardinality(LoopsOf(StartedJobs[i].name)) <= 1
  /\ LoopsAlive \subseteq TrackedTasks
  /\ (~sched._running /\ calls = {}) => LoopsAlive = {}
=============================================================================
